---- MODULE Spec2Model ----
(***************************************************************************)
(* Acorn Archimedes emulator core: the address decoder (memory.cpp), the   *)
(* VIDC/IOC register banks and the IOC tick (io.cpp), the ARM interpreter  *)
(* (cpu.cpp) and the frame loop (libretro.cpp), as a state machine.        *)
(*                                                                         *)
(* A uint32_t is the pair <<hi, lo>> of its two 16-bit halves, so that     *)
(* every 32-bit value (0xFFFFFFFF included) is representable and the       *)
(* arithmetic wraps at 2^32 as it does in the C++ code.  Quantities that   *)
(* the code has already reduced below 2^26 (decoded addresses, buffer      *)
(* offsets) are plain naturals.                                            *)
(***************************************************************************)
EXTENDS Integers, Sequences, FiniteSets, TLC

VARIABLES mem, io, cpu, host, last, steps
vars == <<mem, io, cpu, host, last, steps>>

----------------------------------------------------------------------------
(* uint32_t arithmetic on <<hi, lo>> pairs *)

U16 == 256 * 256

W(n) == <<n \div U16, n % U16>>

N(w) == w[1] * U16 + w[2]

RECURSIVE BitAnd(_, _)
BitAnd(x, y) ==
    IF x = 0 \/ y = 0 THEN 0
    ELSE (x % 2) * (y % 2) + 2 * BitAnd(x \div 2, y \div 2)

And32(a, b) == <<BitAnd(a[1], b[1]), BitAnd(a[2], b[2])>>

Or32(a, b) ==
    <<a[1] + b[1] - BitAnd(a[1], b[1]), a[2] + b[2] - BitAnd(a[2], b[2])>>

Add32(a, b) ==
    LET lo == a[2] + b[2]
        hi == a[1] + b[1] + (lo \div U16)
    IN  <<hi % U16, lo % U16>>

Sub32(a, b) ==
    LET lo == a[2] - b[2]
        borrow == IF lo < 0 THEN 1 ELSE 0
        hi == a[1] - b[1] - borrow
    IN  <<hi % U16, lo % U16>>

Ge32(a, b) == a[1] > b[1] \/ (a[1] = b[1] /\ a[2] >= b[2])

\* address >= n and address < n, for a uint32_t address and a bound n < 2^31
GeN(a, n) == a[1] >= 32768 \/ N(a) >= n
LtN(a, n) == a[1] < 32768 /\ N(a) < n

\* the four bytes of a word, least significant first (little-endian layout)
Lane(w, k) ==
    CASE k = 0 -> w[2] % 256
      [] k = 1 -> w[2] \div 256
      [] k = 2 -> w[1] % 256
      [] k = 3 -> w[1] \div 256

FromBytes(b0, b1, b2, b3) == <<b3 * 256 + b2, b1 * 256 + b0>>

SetLane(w, k, v) ==
    FromBytes(IF k = 0 THEN v ELSE Lane(w, 0), IF k = 1 THEN v ELSE Lane(w, 1),
              IF k = 2 THEN v ELSE Lane(w, 2), IF k = 3 THEN v ELSE Lane(w, 3))

----------------------------------------------------------------------------
(* memory.h, io.h: the memory map *)

RAM_BASE == 0
RAM_SIZE == 16 * 1024 * 1024
ROM_SIZE == 2 * 1024 * 1024
ROM_DEFAULT_BASE == \H03800000
IO_BASE == \H02000000
IO_SIZE == \H02000000
ADDR_MASK == <<\H03FF, \HFFFF>>
VIDC_BASE == \H03400000
VIDC_SIZE == \H00200000
IOC_BASE == \H03200000
IOC_SIZE == \H00200000

\* the value memory_read_word returns for an invalid read
INVALID_READ == <<\HFFFF, \HFFFF>>

\* the address cpu_step writes "to exit boot mode" (the MEMC control register)
MEMC_CONTROL == \H03600000

\* the frame size retro_init hands to io_create
DEFAULT_WIDTH == 640
DEFAULT_HEIGHT == 480

----------------------------------------------------------------------------
(* io.cpp: VIDC and IOC register banks *)

\* VIDC word offsets 260..277, in the order of the switch in io_read_word
VidcReg ==
    <<"h_cycle", "h_sync_width", "h_border_start", "h_display_start",
      "h_display_end", "h_border_end", "h_cursor_start", "v_cycle",
      "v_sync_width", "v_border_start", "v_display_start", "v_display_end",
      "v_border_end", "v_cursor_end", "sound_freq", "sound_control",
      "video_base", "ext_latch_c">>

\* IOC word offsets 0..17
IocReg ==
    <<"control", "timer0_low", "timer0_high", "timer1_low", "timer1_high",
      "timer0_latch", "timer1_latch", "irq_status_a", "irq_request_a",
      "irq_mask_a", "irq_status_b", "irq_request_b", "irq_mask_b",
      "fiq_status", "fiq_request", "fiq_mask", "podule_irq_mask",
      "podule_irq_request">>

io_create(width, height) ==
    [vidc |->
        [control |-> W(0),
         palette |-> [p \in 0..255 |->
                        CASE p = 1 -> W(\HF00)
                          [] p = 2 -> W(\H0F0)
                          [] p = 3 -> W(\H00F)
                          [] p = 4 -> W(\HFFF)
                          [] OTHER -> W(0)],
         border_color |-> W(0),
         cursor_palette |-> [c \in 0..2 |->
                        CASE c = 0 -> W(\HFFF) [] c = 1 -> W(\HF00) [] OTHER -> W(0)],
         h_cycle |-> W(832), h_sync_width |-> W(64), h_border_start |-> W(64),
         h_display_start |-> W(128), h_display_end |-> W(768),
         h_border_end |-> W(768), h_cursor_start |-> W(0),
         v_cycle |-> W(625), v_sync_width |-> W(2), v_border_start |-> W(35),
         v_display_start |-> W(70), v_display_end |-> W(550),
         v_border_end |-> W(590), v_cursor_end |-> W(0),
         sound_freq |-> W(24), sound_control |-> W(0),
         video_base |-> W(0), ext_latch_c |-> W(0)],
     ioc |->
        [control |-> W(0),
         timer0_low |-> W(0), timer0_high |-> W(0),
         timer1_low |-> W(0), timer1_high |-> W(0),
         timer0_latch |-> W(\HFFFF), timer1_latch |-> W(\HFFFF),
         irq_status_a |-> W(0), irq_request_a |-> W(0), irq_mask_a |-> W(32 + 64),
         irq_status_b |-> W(0), irq_request_b |-> W(0), irq_mask_b |-> W(0),
         fiq_status |-> W(0), fiq_request |-> W(0), fiq_mask |-> W(0),
         podule_irq_mask |-> W(0), podule_irq_request |-> W(0)],
     frame_width |-> W(width),
     frame_height |-> W(height),
     irq_pending |-> FALSE,
     fiq_pending |-> FALSE,
     cycles |-> <<0, 0>>]

io_read_word(i, address) ==
    IF address >= VIDC_BASE /\ address < VIDC_BASE + VIDC_SIZE THEN
        LET offset == (address - VIDC_BASE) \div 4 IN
        CASE offset = 0 ->
                Or32(i.vidc.control,
                     IF BitAnd(i.ioc.irq_request_a[2], 8) # 0 THEN W(8) ELSE W(0))
          [] offset \in 1..255 -> i.vidc.palette[offset - 1]
          [] offset = 256 -> i.vidc.border_color
          [] offset \in 257..259 -> i.vidc.cursor_palette[offset - 257]
          [] offset \in 260..277 -> i.vidc[VidcReg[offset - 259]]
          [] OTHER -> W(0)
    ELSE IF address >= IOC_BASE /\ address < IOC_BASE + IOC_SIZE THEN
        LET offset == (address - IOC_BASE) \div 4 IN
        IF offset \in 0..17 THEN i.ioc[IocReg[offset + 1]] ELSE W(0)
    ELSE W(0)

\* a write to VIDC word offset 260..277 that recomputes no frame dimension
VidcTimingWrite_StaleSize(i, offset, value) ==
    LET name == VidcReg[offset - 259]
        stored == CASE offset = 274 -> And32(value, W(\HFF))
                    [] offset = 276 -> And32(value, ADDR_MASK)
                    [] offset = 277 -> And32(value, W(\HFF))
                    [] OTHER -> value
    IN  [i EXCEPT !.vidc = [i.vidc EXCEPT ![name] = stored]]

\* a write to VIDC word offset 260..277
VidcTimingWrite(i, offset, value) ==
    LET name == VidcReg[offset - 259]
        stored == CASE offset = 274 -> And32(value, W(\HFF))
                    [] offset = 276 -> And32(value, ADDR_MASK)
                    [] offset = 277 -> And32(value, W(\HFF))
                    [] OTHER -> value
        v == [i.vidc EXCEPT ![name] = stored]
    IN  CASE offset \in {263, 264} ->
                [i EXCEPT !.vidc = v,
                          !.frame_width = Sub32(v.h_display_end, v.h_display_start)]
          [] offset \in {270, 271} ->
                [i EXCEPT !.vidc = v,
                          !.frame_height = Sub32(v.v_display_end, v.v_display_start)]
          [] OTHER -> [i EXCEPT !.vidc = v]

\* a write to IOC word offset 0..17
IocWrite(i, offset, value) ==
    LET name == IocReg[offset + 1]
        low16 == And32(value, W(\HFFFF))
    IN  CASE offset \in 1..4 -> [i EXCEPT !.ioc[name] = low16]
          [] offset = 5 -> [i EXCEPT !.ioc.timer0_latch = low16,
                                     !.ioc.timer0_low = low16]
          [] offset = 6 -> [i EXCEPT !.ioc.timer1_latch = low16,
                                     !.ioc.timer1_low = low16]
          [] OTHER -> [i EXCEPT !.ioc[name] = value]

io_write_word(i, address, value) ==
    IF address >= VIDC_BASE /\ address < VIDC_BASE + VIDC_SIZE THEN
        LET offset == (address - VIDC_BASE) \div 4 IN
        CASE offset = 0 -> [i EXCEPT !.vidc.control = value]
          [] offset \in 1..255 ->
                [i EXCEPT !.vidc.palette[offset - 1] = And32(value, W(\H1FFF))]
          [] offset = 256 ->
                [i EXCEPT !.vidc.border_color = And32(value, W(\H1FFF))]
          [] offset \in 257..259 ->
                [i EXCEPT !.vidc.cursor_palette[offset - 257] = And32(value, W(\H1FFF))]
          [] offset \in 260..277 -> VidcTimingWrite(i, offset, value)
          [] OTHER -> i
    ELSE IF address >= IOC_BASE /\ address < IOC_BASE + IOC_SIZE THEN
        LET offset == (address - IOC_BASE) \div 4 IN
        IF offset \in 0..17 THEN IocWrite(i, offset, value) ELSE i
    ELSE IF address = \H02FF5500 THEN
        [i EXCEPT !.vidc.control = value]
    ELSE i

io_read_byte(i, address) ==
    LET word == io_read_word(i, (address \div 4) * 4)
    IN  Lane(word, address % 4)

io_write_byte(i, address, value) ==
    LET word_addr == (address \div 4) * 4
        word == io_read_word(i, word_addr)
    IN  io_write_word(i, word_addr, SetLane(word, address % 4, value))

\* 8 MHz / 50 Hz
cycles_per_frame == 8000000 \div 50

\* the uint64_t cycle counter is held as <<q, r>>, standing for
\* q * cycles_per_frame + r, so that it stays within the checker's integers
AddCycles(c, n) ==
    <<c[1] + (c[2] + n) \div cycles_per_frame, (c[2] + n) % cycles_per_frame>>

\* a timer that reloads without raising its request
TimerTick_Silent(low, high, latch) ==
    LET t == Add32(low, W(cycles_per_frame))
    IN  IF Ge32(t, latch)
        THEN <<Sub32(t, latch), Add32(high, W(1)), FALSE>>
        ELSE <<t, high, FALSE>>

\* one timer of io_update_timers: <<low, high, fired>>
TimerTick(low, high, latch) ==
    LET t == Add32(low, W(cycles_per_frame))
    IN  IF Ge32(t, latch)
        THEN <<Sub32(t, latch), Add32(high, W(1)), TRUE>>
        ELSE <<t, high, FALSE>>

io_update_timers(i) ==
    LET cyc == AddCycles(i.cycles, cycles_per_frame)
        t0 == TimerTick(i.ioc.timer0_low, i.ioc.timer0_high, i.ioc.timer0_latch)
        t1 == TimerTick(i.ioc.timer1_low, i.ioc.timer1_high, i.ioc.timer1_latch)
        r0 == IF t0[3] THEN Or32(i.ioc.irq_request_a, W(32)) ELSE i.ioc.irq_request_a
        r1 == IF t1[3] THEN Or32(r0, W(64)) ELSE r0
        r2 == IF cyc[2] = 0 THEN Or32(r1, W(8)) ELSE r1
    IN  [i EXCEPT
            !.cycles = cyc,
            !.ioc.timer0_low = t0[1], !.ioc.timer0_high = t0[2],
            !.ioc.timer1_low = t1[1], !.ioc.timer1_high = t1[2],
            !.ioc.irq_request_a = r2,
            !.irq_pending = (And32(r2, i.ioc.irq_mask_a) # W(0)
                             \/ And32(i.ioc.irq_request_b, i.ioc.irq_mask_b) # W(0)),
            !.fiq_pending = (And32(i.ioc.fiq_request, i.ioc.fiq_mask) # W(0))]

----------------------------------------------------------------------------
(* memory.cpp: the address decoder.  ram and rom hold only the bytes that  *)
(* differ from the buffer's fill: calloc's zeros, and for the RAM the test *)
(* pattern retro_load_game writes over the video memory.                   *)

\* retro_load_game: video_mem[i] = i % 16 over frame_width * frame_height bytes
RamFill(idx) ==
    IF idx < DEFAULT_WIDTH * DEFAULT_HEIGHT THEN idx % 16 ELSE 0

RamByte(m, idx) == IF idx \in DOMAIN m.ram THEN m.ram[idx] ELSE RamFill(idx)

RomByte(m, idx) == IF idx \in DOMAIN m.rom THEN m.rom[idx] ELSE 0

\* *(uint32_t*)(mem->ram + idx) on the little-endian host
RamWord(m, idx) ==
    FromBytes(RamByte(m, idx), RamByte(m, idx + 1),
              RamByte(m, idx + 2), RamByte(m, idx + 3))

RomWord(m, idx) ==
    FromBytes(RomByte(m, idx), RomByte(m, idx + 1),
              RomByte(m, idx + 2), RomByte(m, idx + 3))

\* mem->ram[idx] = b
RamPut(ram, idx, b) ==
    IF b = RamFill(idx)
    THEN [j \in DOMAIN ram \ {idx} |-> ram[j]]
    ELSE [j \in DOMAIN ram \cup {idx} |-> IF j = idx THEN b ELSE ram[j]]

\* *(uint32_t*)(mem->ram + idx) = value
RamPutWord(ram, idx, value) ==
    RamPut(RamPut(RamPut(RamPut(ram, idx, Lane(value, 0)),
                         idx + 1, Lane(value, 1)),
                  idx + 2, Lane(value, 2)),
           idx + 3, Lane(value, 3))

\* address &= ADDR_MASK, as a natural below 2^26
Masked(address) == N(And32(address, ADDR_MASK))

\* rom_offset <= mem->rom_size - 4, in size_t arithmetic (wraps below 4)
WithinRomWord(m, rom_offset) ==
    IF m.rom_size >= 4 THEN rom_offset <= m.rom_size - 4 ELSE TRUE

\* the ROM aliases at 0x02000000 and at 0
InRomAlias(a) ==
    (a >= \H02000000 /\ a < \H02200000) \/ (a >= 0 /\ a < \H00200000)

\* (address & 0x001FFFFF) % mem->rom_size.  With rom_size = 0 the division
\* is undefined: here the value of a build whose division does not trap
\* (the dividend); the trap is DividesByZero
RomOffset(m, a) ==
    IF m.rom_size = 0 THEN a % \H00200000 ELSE (a % \H00200000) % m.rom_size

\* the access computes an offset modulo rom_size = 0
DividesByZero(m, address) ==
    InRomAlias(Masked(address)) /\ m.rom_size = 0

memory_read_word(m, i, address) ==
    LET a == Masked(address) IN
    IF (a >= \H02000000 /\ a < \H02200000) \/ (a >= 0 /\ a < \H00200000) THEN
        LET rom_offset == RomOffset(m, a) IN
        IF WithinRomWord(m, rom_offset) THEN RomWord(m, rom_offset)
        ELSE INVALID_READ
    ELSE IF a >= RAM_BASE /\ a < RAM_BASE + RAM_SIZE - 3 THEN
        RamWord(m, a - RAM_BASE)
    ELSE IF a >= m.rom_base /\ a < m.rom_base + m.rom_size - 3 THEN
        RomWord(m, a - m.rom_base)
    ELSE IF a >= IO_BASE /\ a < IO_BASE + IO_SIZE - 3 THEN
        io_read_word(i, a)
    ELSE INVALID_READ

\* no address &= ADDR_MASK here: the comparisons see all 32 bits
memory_write_word(m, i, address, value) ==
    IF (GeN(address, m.rom_base) /\ LtN(address, m.rom_base + m.rom_size))
       \/ (m.is_boot_mode /\ GeN(address, 0) /\ LtN(address, \H00200000)) THEN
        [mem |-> m, io |-> i]
    ELSE IF GeN(address, RAM_BASE) /\ LtN(address, RAM_BASE + RAM_SIZE - 3) THEN
        [mem |-> [m EXCEPT !.ram = RamPutWord(m.ram, N(address) - RAM_BASE, value)],
         io |-> i]
    ELSE IF GeN(address, IO_BASE) /\ LtN(address, IO_BASE + IO_SIZE) THEN
        [mem |-> m, io |-> io_write_word(i, N(address), value)]
    ELSE [mem |-> m, io |-> i]

memory_read_byte(m, i, address) ==
    LET a == Masked(address) IN
    IF (a >= \H02000000 /\ a < \H02200000) \/ (a >= 0 /\ a < \H00200000) THEN
        LET rom_offset == RomOffset(m, a) IN
        IF rom_offset < m.rom_size THEN RomByte(m, rom_offset) ELSE 0
    ELSE IF a >= RAM_BASE /\ a < RAM_BASE + RAM_SIZE THEN
        RamByte(m, a - RAM_BASE)
    ELSE IF a >= m.rom_base /\ a < m.rom_base + m.rom_size THEN
        RomByte(m, a - m.rom_base)
    ELSE IF a >= IO_BASE /\ a < IO_BASE + IO_SIZE THEN
        io_read_byte(i, a)
    ELSE 0

\* memory_write_byte without the ROM guard: the store lands in the ROM buffer
memory_write_byte_RomWritable(m, i, address, value) ==
    LET a == Masked(address) IN
    IF (a >= \H02000000 /\ a < \H02200000) \/ (a >= 0 /\ a < \H00200000) THEN
        [mem |-> m, io |-> i]
    ELSE IF a >= RAM_BASE /\ a < RAM_BASE + RAM_SIZE THEN
        [mem |-> [m EXCEPT !.ram = RamPut(m.ram, a - RAM_BASE, value)], io |-> i]
    ELSE IF a >= m.rom_base /\ a < m.rom_base + m.rom_size THEN
        [mem |-> [m EXCEPT !.rom =
                    [j \in DOMAIN m.rom \cup {a - m.rom_base} |->
                        IF j = a - m.rom_base THEN value ELSE m.rom[j]]],
         io |-> i]
    ELSE IF a >= IO_BASE /\ a < IO_BASE + IO_SIZE THEN
        [mem |-> m, io |-> io_write_byte(i, a, value)]
    ELSE [mem |-> m, io |-> i]

memory_write_byte(m, i, address, value) ==
    LET a == Masked(address) IN
    IF (a >= \H02000000 /\ a < \H02200000) \/ (a >= 0 /\ a < \H00200000) THEN
        [mem |-> m, io |-> i]
    ELSE IF a >= RAM_BASE /\ a < RAM_BASE + RAM_SIZE THEN
        [mem |-> [m EXCEPT !.ram = RamPut(m.ram, a - RAM_BASE, value)], io |-> i]
    ELSE IF a >= m.rom_base /\ a < m.rom_base + m.rom_size THEN
        [mem |-> m, io |-> i]
    ELSE IF a >= IO_BASE /\ a < IO_BASE + IO_SIZE THEN
        [mem |-> m, io |-> io_write_byte(i, a, value)]
    ELSE [mem |-> m, io |-> i]

----------------------------------------------------------------------------
(* cpu.h, cpu.cpp: the ARM CPU.  More uint32_t arithmetic first. *)

Pow2(n) == 2 ^ n

Xor32(a, b) ==
    <<a[1] + b[1] - 2 * BitAnd(a[1], b[1]), a[2] + b[2] - 2 * BitAnd(a[2], b[2])>>

Not32(a) == <<U16 - 1 - a[1], U16 - 1 - a[2]>>

Lt32(a, b) == a[1] < b[1] \/ (a[1] = b[1] /\ a[2] < b[2])

\* x << n, for 0 <= n <= 31
Shl32(w, n) ==
    IF n >= 16 THEN <<(w[2] * Pow2(n - 16)) % U16, 0>>
    ELSE <<(w[1] * Pow2(n) + (w[2] * Pow2(n)) \div U16) % U16, (w[2] * Pow2(n)) % U16>>

\* x >> n on a uint32_t, for 0 <= n <= 31
Shr32(w, n) ==
    IF n >= 16 THEN <<0, w[1] \div Pow2(n - 16)>>
    ELSE <<w[1] \div Pow2(n), w[2] \div Pow2(n) + (w[1] % Pow2(n)) * Pow2(16 - n)>>

\* (int32_t)x >> n, for 0 <= n <= 31
Asr32(w, n) ==
    IF w[1] >= 32768 THEN Not32(Shr32(Not32(w), n)) ELSE Shr32(w, n)

\* bit k of x
Bit32(w, k) == Shr32(w, k)[2] % 2

\* (x >> lo) & (2^width - 1), for width <= 16
Field(w, lo, width) == Shr32(w, lo)[2] % Pow2(width)

\* the low 16 bits of x * y, for x, y < 2^16
MulLow16(x, y) == ((x % 256) * y + (((x \div 256) * y) % 256) * 256) % U16

\* x * y as a uint32_t, for x, y < 2^16
MulWide(x, y) ==
    LET p == (x \div 256) * y
        q == (x % 256) * y
    IN  Add32(<<p \div 256, (p % 256) * 256>>, <<q \div U16, q % U16>>)

\* x * y on uint32_t
Mul32(a, b) ==
    LET cross == (MulLow16(a[1], b[2]) + MulLow16(a[2], b[1])) % U16
    IN  Add32(MulWide(a[2], b[2]), <<cross, 0>>)

PSR_N == <<\H8000, 0>>
PSR_Z == <<\H4000, 0>>
PSR_C == <<\H2000, 0>>
PSR_V == <<\H1000, 0>>
PSR_I == <<0, \H80>>
PSR_F == <<0, \H40>>
PSR_MODE_MASK == <<0, \H1F>>
MODE_USR == <<0, \H10>>
MODE_FIQ == <<0, \H11>>
MODE_IRQ == <<0, \H12>>
MODE_SVC == <<0, \H13>>

\* cpu_reset; the function-static counters of cpu_step are not touched by it
cpu_reset(c) ==
    [c EXCEPT
        !.registers = [r \in 0..15 |-> IF r = 14 THEN W(4) ELSE W(0)],
        !.cpsr = Or32(Or32(PSR_I, PSR_F), MODE_SVC),
        !.spsr = W(0),
        !.spsr_irq = W(0),
        !.spsr_fiq = W(0)]

\* cpu_create, with the function-static counters of cpu_step at their
\* initial values
cpu_create ==
    cpu_reset([registers |-> [r \in 0..15 |-> W(0)],
               cpsr |-> Or32(Or32(PSR_I, PSR_F), MODE_SVC),
               spsr |-> W(0), spsr_irq |-> W(0), spsr_fiq |-> W(0),
               total_steps |-> 0,
               early_loop_count |-> 0, outer_loop_count |-> 0,
               loop1_count |-> 0, new_loop_count |-> 0,
               loop2_count |-> 0, loop3_count |-> 0])

\* the frontend's statics: running, the process itself (exit(1) ends it),
\* the position inside retro_run, the loop index i of its CPU loop, and the
\* events of the frame in progress
host_create ==
    [running |-> TRUE, process |-> "alive", pc |-> "idle", i |-> 0,
     events |-> << >>]


----------------------------------------------------------------------------
(* cpu.cpp: one instruction *)

STEP_LIMIT == 10000000

IsSet(psr, flag) == And32(psr, flag) # W(0)

\* update_flags that never sets Z
update_flags_NeverZero(c, result, carry, overflow) ==
    LET cleared == And32(c.cpsr, Not32(Or32(Or32(PSR_N, PSR_Z), Or32(PSR_C, PSR_V))))
        n == IF result[1] >= 32768 THEN PSR_N ELSE W(0)
        cy == IF carry THEN PSR_C ELSE W(0)
        v == IF overflow THEN PSR_V ELSE W(0)
    IN  [c EXCEPT !.cpsr = Or32(Or32(cleared, n), Or32(cy, v))]

update_flags(c, result, carry, overflow) ==
    LET cleared == And32(c.cpsr, Not32(Or32(Or32(PSR_N, PSR_Z), Or32(PSR_C, PSR_V))))
        n == IF result[1] >= 32768 THEN PSR_N ELSE W(0)
        z == IF result = W(0) THEN PSR_Z ELSE W(0)
        cy == IF carry THEN PSR_C ELSE W(0)
        v == IF overflow THEN PSR_V ELSE W(0)
    IN  [c EXCEPT !.cpsr = Or32(Or32(Or32(cleared, n), z), Or32(cy, v))]

condition_met(c, cond) ==
    LET n == IsSet(c.cpsr, PSR_N)
        z == IsSet(c.cpsr, PSR_Z)
        cy == IsSet(c.cpsr, PSR_C)
        v == IsSet(c.cpsr, PSR_V)
    IN  CASE cond = 0 -> z
          [] cond = 1 -> ~z
          [] cond = 2 -> cy
          [] cond = 3 -> ~cy
          [] cond = 4 -> n
          [] cond = 5 -> ~n
          [] cond = 6 -> v
          [] cond = 7 -> ~v
          [] cond = 8 -> cy /\ ~z
          [] cond = 9 -> ~cy \/ z
          [] cond = 10 -> n = v
          [] cond = 11 -> n # v
          [] cond = 12 -> ~z /\ n = v
          [] cond = 13 -> z \/ n # v
          [] cond = 14 -> TRUE
          [] OTHER -> FALSE

\* (x >> n) | (x << (32 - n)), for 1 <= n <= 31
Ror32(w, n) == Or32(Shr32(w, n), Shl32(w, 32 - n))

\* get_operand2: the set of <<operand2, carry_out>> pairs the call can
\* produce, carry being the caller's initial *carry_out.  The set has two
\* members only where the code shifts by -1 (ASR by a register holding 0).
get_operand2(c, instr, carry) ==
    IF Bit32(instr, 25) = 1 THEN
        LET imm == W(Field(instr, 0, 8))
            rot == Field(instr, 8, 4)
            operand2 == IF rot = 0 THEN imm ELSE Ror32(imm, 2 * rot)
        IN  {<<operand2, IF rot = 0 THEN IsSet(c.cpsr, PSR_C)
                         ELSE Bit32(operand2, 31) = 1>>}
    ELSE
        LET rm == Field(instr, 0, 4)
            operand2 == c.registers[rm]
            shift == Field(instr, 4, 8)
            type == (shift \div 2) % 4
        IN  IF shift % 2 = 1 THEN
                LET rs == Field(instr, 8, 4)
                    amount == c.registers[rs][2] % 256
                IN  CASE type = 0 ->
                           IF amount > 32 THEN {<<W(0), FALSE>>}
                           ELSE IF amount = 32 THEN {<<W(0), Bit32(operand2, 0) = 1>>}
                           ELSE IF amount > 0 THEN
                               {<<Shl32(operand2, amount), Bit32(operand2, 32 - amount) = 1>>}
                           ELSE {<<operand2, carry>>}
                      [] type = 1 ->
                           IF amount > 32 THEN {<<W(0), FALSE>>}
                           ELSE IF amount = 32 THEN {<<W(0), Bit32(operand2, 31) = 1>>}
                           ELSE IF amount > 0 THEN
                               {<<Shr32(operand2, amount), Bit32(operand2, amount - 1) = 1>>}
                           ELSE {<<operand2, carry>>}
                      [] type = 2 ->
                           IF amount >= 32 THEN
                               {<<Asr32(operand2, 31), Bit32(operand2, 31) = 1>>}
                           ELSE IF amount = 0 THEN
                               {<<operand2, b>> : b \in BOOLEAN}
                           ELSE {<<Asr32(operand2, amount), Bit32(operand2, amount - 1) = 1>>}
                      [] OTHER ->
                           IF amount = 0 \/ amount % 32 = 0 THEN {<<operand2, carry>>}
                           ELSE {<<Ror32(operand2, amount % 32),
                                   Bit32(operand2, (amount % 32) - 1) = 1>>}
            ELSE
                LET amount == (shift \div 8) % 32
                IN  CASE type = 0 ->
                           IF amount > 0 THEN
                               {<<Shl32(operand2, amount), Bit32(operand2, 32 - amount) = 1>>}
                           ELSE {<<operand2, carry>>}
                      [] type = 1 ->
                           IF amount = 0 THEN {<<W(0), FALSE>>}
                           ELSE {<<Shr32(operand2, amount), Bit32(operand2, amount - 1) = 1>>}
                      [] type = 2 ->
                           IF amount = 0 THEN
                               {<<Asr32(operand2, 31), Bit32(operand2, 31) = 1>>}
                           ELSE {<<Asr32(operand2, amount), Bit32(operand2, amount - 1) = 1>>}
                      [] OTHER ->
                           IF amount = 0 THEN {<<operand2, carry>>}
                           ELSE {<<Ror32(operand2, amount), Bit32(operand2, amount - 1) = 1>>}

\* bit 31 of (a ^ r) & (b ^ r)
SignedOverflow(a, b, r) == Bit32(And32(Xor32(a, r), Xor32(b, r)), 31) = 1

\* the switch over the data-processing opcode: <<result, carry_out, overflow>>
DataOp(opcode, op1, op2, carry_in, carry_out) ==
    LET cin == IF carry_in THEN W(1) ELSE W(0)
        sub == Sub32(op1, op2)
        rsb == Sub32(op2, op1)
        add == Add32(op1, op2)
        adc == Add32(add, cin)
        sbc == Sub32(Add32(sub, cin), W(1))
        rsc == Sub32(Add32(rsb, cin), W(1))
    IN  CASE opcode = 0 -> <<And32(op1, op2), carry_out, FALSE>>
          [] opcode = 1 -> <<Xor32(op1, op2), carry_out, FALSE>>
          [] opcode = 2 -> <<sub, Ge32(op1, op2), SignedOverflow(op1, Not32(op2), sub)>>
          [] opcode = 3 -> <<rsb, Ge32(op2, op1), SignedOverflow(op2, Not32(op1), rsb)>>
          [] opcode = 4 -> <<add, Lt32(add, op1), SignedOverflow(op1, op2, add)>>
          [] opcode = 5 -> <<adc, Lt32(adc, op1) \/ (adc = op1 /\ op2 # W(0)),
                             SignedOverflow(op1, op2, adc)>>
          [] opcode = 6 -> <<sbc, Ge32(op1, op2) \/ (op1 = op2 /\ carry_in),
                             SignedOverflow(op1, Not32(op2), sbc)>>
          [] opcode = 7 -> <<rsc, Ge32(op2, op1) \/ (op2 = op1 /\ carry_in),
                             SignedOverflow(op2, Not32(op1), rsc)>>
          [] opcode = 8 -> <<And32(op1, op2), carry_out, FALSE>>
          [] opcode = 9 -> <<Xor32(op1, op2), carry_out, FALSE>>
          [] opcode = 10 -> <<sub, Ge32(op1, op2), SignedOverflow(op1, Not32(op2), sub)>>
          [] opcode = 11 -> <<add, Lt32(add, op1), SignedOverflow(op1, op2, add)>>
          [] opcode = 12 -> <<Or32(op1, op2), carry_out, FALSE>>
          [] opcode = 13 -> <<op2, carry_out, FALSE>>
          [] opcode = 14 -> <<And32(op1, Not32(op2)), carry_out, FALSE>>
          [] OTHER -> <<Not32(op2), carry_out, FALSE>>

\* the data-processing branch of cpu_step: the set of CPU states it can leave
DataProcessing(c, instr) ==
    LET opcode == Field(instr, 21, 4)
        rn == Field(instr, 16, 4)
        rd == Field(instr, 12, 4)
        s_flag == Bit32(instr, 20) = 1
        carry_in == IsSet(c.cpsr, PSR_C)
        op1 == c.registers[rn]
    IN  { LET r == DataOp(opcode, op1, o[1], carry_in, o[2])
              flagged == IF s_flag \/ opcode >= 8
                         THEN update_flags(c, r[1], r[2], r[3]) ELSE c
          IN  IF opcode < 8 \/ opcode >= 12
              THEN [flagged EXCEPT !.registers[rd] =
                        IF rd # 15 THEN r[1] ELSE And32(r[1], ADDR_MASK)]
              ELSE flagged
          : o \in get_operand2(c, instr, carry_in) }

\* the load/store branch of cpu_step
LoadStore(c, m, i, instr) ==
    LET rn == Field(instr, 16, 4)
        rd == Field(instr, 12, 4)
        load == Bit32(instr, 20) = 1
        byte == Bit32(instr, 22) = 1
        up == Bit32(instr, 23) = 1
        pre == Bit32(instr, 24) = 1
        writeback == Bit32(instr, 21) = 1
        base == c.registers[rn]
    IN  { LET offset == IF Bit32(instr, 25) = 1 THEN o[1]
                        ELSE <<0, instr[2] % \H1000>>
              addr == IF up THEN Add32(base, offset) ELSE Sub32(base, offset)
              at == IF pre THEN addr ELSE base
              loaded == IF byte THEN W(memory_read_byte(m, i, at))
                        ELSE memory_read_word(m, i, at)
              stored == IF byte
                        THEN memory_write_byte(m, i, at, c.registers[rd][2] % 256)
                        ELSE memory_write_word(m, i, at, c.registers[rd])
              transferred == IF load THEN [c EXCEPT !.registers[rd] = loaded] ELSE c
              based == IF ~pre \/ writeback
                       THEN [transferred EXCEPT !.registers[rn] = addr]
                       ELSE transferred
              final == IF rd = 15
                       THEN [based EXCEPT !.registers[15] = And32(@, ADDR_MASK)]
                       ELSE based
          IN  [cpu |-> final,
               mem |-> IF load THEN m ELSE stored.mem,
               io |-> IF load THEN i ELSE stored.io,
               exited |-> FALSE]
          : o \in IF Bit32(instr, 25) = 1 THEN get_operand2(c, instr, FALSE)
                  ELSE {<<W(0), FALSE>>} }

\* the transfer loop of LDM/STM from register k on; s is [cpu, mem, io].
\* The result is the one-element set of the state the loop leaves.
RECURSIVE BlockLoop(_, _, _, _, _)
BlockLoop(s, k, addr, load, reg_list) ==
    IF k = 16 THEN {s}
    ELSE IF (reg_list \div Pow2(k)) % 2 = 1 THEN
        UNION { BlockLoop(next, k + 1, Add32(addr, W(4)), load, reg_list) :
                next \in { IF load
                           THEN [s EXCEPT !.cpu.registers[k] =
                                    memory_read_word(s.mem, s.io, addr)]
                           ELSE LET w == memory_write_word(s.mem, s.io, addr,
                                                           s.cpu.registers[k])
                                IN  [s EXCEPT !.mem = w.mem, !.io = w.io] } }
    ELSE BlockLoop(s, k + 1, addr, load, reg_list)

\* the two special cases after the transfer loop of LDM/STM
BlockSpecial(s, instr) ==
    IF instr = <<\HE8BD, \H0043>> THEN
        LET sp == s.cpu.registers[13] IN
        [s EXCEPT !.cpu.registers =
            [s.cpu.registers EXCEPT
                ![0] = memory_read_word(s.mem, s.io, sp),
                ![1] = memory_read_word(s.mem, s.io, Add32(sp, W(4))),
                ![6] = memory_read_word(s.mem, s.io, Add32(sp, W(8))),
                ![13] = Add32(sp, W(12))]]
    ELSE IF instr = <<\HE92D, \H0043>> THEN
        LET sp == Sub32(s.cpu.registers[13], W(12))
            w0 == memory_write_word(s.mem, s.io, sp, s.cpu.registers[0])
            w1 == memory_write_word(w0.mem, w0.io, Add32(sp, W(4)), s.cpu.registers[1])
            w6 == memory_write_word(w1.mem, w1.io, Add32(sp, W(8)), s.cpu.registers[6])
        IN  [cpu |-> [s.cpu EXCEPT !.registers[13] = sp], mem |-> w6.mem, io |-> w6.io]
    ELSE s

\* the block-transfer branch of cpu_step
BlockTransfer(c, m, i, instr) ==
    LET rn == Field(instr, 16, 4)
        load == Bit32(instr, 20) = 1
        up == Bit32(instr, 23) = 1
        pre == Bit32(instr, 24) = 1
        writeback == Bit32(instr, 21) = 1
        reg_list == instr[2]
        base == c.registers[rn]
        count == Cardinality({k \in 0..15 : (reg_list \div Pow2(k)) % 2 = 1})
        start == IF up THEN base ELSE Sub32(base, W(count * 4))
        addr == IF (~up /\ ~pre) \/ (up /\ pre) THEN Add32(start, W(4)) ELSE start
    IN  { LET based == IF writeback
                       THEN [looped EXCEPT !.cpu.registers[rn] =
                                IF up THEN Add32(base, W(count * 4))
                                ELSE Sub32(base, W(count * 4))]
                       ELSE looped
              masked == IF load /\ (reg_list \div Pow2(15)) % 2 = 1
                        THEN [based EXCEPT !.cpu.registers[15] = And32(@, ADDR_MASK)]
                        ELSE based
              final == BlockSpecial(masked, instr)
          IN  [cpu |-> final.cpu, mem |-> final.mem, io |-> final.io, exited |-> FALSE]
          : looped \in BlockLoop([cpu |-> c, mem |-> m, io |-> i], 0, addr, load, reg_list) }

\* the multiply branch of cpu_step
Multiply(c, instr) ==
    LET rd == Field(instr, 16, 4)
        rn == Field(instr, 12, 4)
        rs == Field(instr, 8, 4)
        rm == Field(instr, 0, 4)
        product == Mul32(c.registers[rm], c.registers[rs])
        result == IF Bit32(instr, 21) = 1 THEN Add32(product, c.registers[rn])
                  ELSE product
        written == [c EXCEPT !.registers[rd] = result]
    IN  IF Bit32(instr, 20) = 1 THEN update_flags(written, result, FALSE, FALSE)
        ELSE written

\* the SWI branch of cpu_step
SoftwareInterrupt(c) ==
    [c EXCEPT
        !.spsr = c.cpsr,
        !.cpsr = Or32(Or32(And32(c.cpsr, Not32(PSR_MODE_MASK)), MODE_SVC), PSR_I),
        !.registers = [c.registers EXCEPT ![14] = c.registers[15], ![15] = W(8)]]

\* the branch branch of cpu_step
Branch(c, instr, fetch_pc) ==
    LET field == <<instr[1] % 256, instr[2]>>
        extended == IF field[1] >= 128 THEN Or32(field, <<\HFF00, 0>>) ELSE field
        offset == Shl32(extended, 2)
        new_pc == Add32(Add32(fetch_pc, W(8)), offset)
        linked == IF Bit32(instr, 24) = 1
                  THEN [c EXCEPT !.registers[14] = c.registers[15]] ELSE c
    IN  [linked EXCEPT !.registers[15] = And32(new_pc, ADDR_MASK)]

\* the class chain of a cpu_step that also ticks the IOC: io_update_timers
\* runs with every executed instruction
Execute_TickingTimers(c, m, i, instr, fetch_pc) ==
    LET ticked == io_update_timers(i)
        same(cs) == {[cpu |-> x, mem |-> m, io |-> ticked, exited |-> FALSE] : x \in cs}
    IN  IF Field(instr, 26, 2) = 0 THEN same(DataProcessing(c, instr))
        ELSE IF Field(instr, 25, 3) = 5 THEN same({Branch(c, instr, fetch_pc)})
        ELSE IF Field(instr, 26, 2) = 1 THEN LoadStore(c, m, ticked, instr)
        ELSE IF Field(instr, 24, 4) = 8 THEN BlockTransfer(c, m, ticked, instr)
        ELSE IF Field(instr, 22, 6) = 0 /\ Field(instr, 4, 4) = 9
             THEN same({Multiply(c, instr)})
        ELSE IF Field(instr, 24, 4) = 15 THEN same({SoftwareInterrupt(c)})
        ELSE same({c})

\* the if/else-if chain of cpu_step over the instruction classes, in its order
Execute(c, m, i, instr, fetch_pc) ==
    LET same(cs) == {[cpu |-> x, mem |-> m, io |-> i, exited |-> FALSE] : x \in cs}
    IN  IF Field(instr, 26, 2) = 0 THEN same(DataProcessing(c, instr))
        ELSE IF Field(instr, 25, 3) = 5 THEN same({Branch(c, instr, fetch_pc)})
        ELSE IF Field(instr, 26, 2) = 1 THEN LoadStore(c, m, i, instr)
        ELSE IF Field(instr, 24, 4) = 8 THEN BlockTransfer(c, m, i, instr)
        ELSE IF Field(instr, 22, 6) = 0 /\ Field(instr, 4, 4) = 9
             THEN same({Multiply(c, instr)})
        ELSE IF Field(instr, 24, 4) = 15 THEN same({SoftwareInterrupt(c)})
        ELSE same({c})

\* one loop cap of cpu_step: count the fetch at `at`, and on the limit-th
\* move R15 to `to` and restart the count
LoopCap(c, fetch_pc, at, counter, limit, to) ==
    IF fetch_pc # W(at) THEN c
    ELSE IF c[counter] + 1 >= limit
         THEN [c EXCEPT ![counter] = 0, !.registers[15] = W(to)]
         ELSE [c EXCEPT ![counter] = c[counter] + 1]

\* a cap that ends the step: this fetch is the limit-th at `at`
CapReturns(c, fetch_pc, at, counter, limit) ==
    fetch_pc = W(at) /\ c[counter] + 1 >= limit

\* cpu_step: the set of outcomes [cpu, mem, io, exited] of one call; exited
\* is exit(1), which leaves the state as it was when called
cpu_step(c, m, i) ==
    IF i.irq_pending /\ ~IsSet(c.cpsr, PSR_I) THEN
        {[cpu |-> [c EXCEPT
                      !.spsr_irq = c.cpsr,
                      !.cpsr = Or32(Or32(And32(c.cpsr, Not32(PSR_MODE_MASK)),
                                         MODE_IRQ), PSR_I),
                      !.registers = [c.registers EXCEPT ![14] = c.registers[15],
                                                        ![15] = W(\H18)]],
          mem |-> m,
          io |-> [i EXCEPT !.irq_pending = FALSE],
          exited |-> FALSE]}
    ELSE
        LET fetch_pc == And32(c.registers[15], ADDR_MASK)
            instr == memory_read_word(m, i, fetch_pc)
            forced == IF fetch_pc = W(\H0380A598)
                      THEN memory_write_word(m, i, W(MEMC_CONTROL), W(0))
                      ELSE [mem |-> m, io |-> i]
            counted == [c EXCEPT !.total_steps = @ + 1,
                                 !.registers[15] = Add32(@, W(4))]
            cap1 == LoopCap(counted, fetch_pc, \H0380A5F4, "early_loop_count", 5, \H0380A5F8)
            cap2 == LoopCap(cap1, fetch_pc, \H0380A5EC, "outer_loop_count", 10, \H0380A5F8)
            cap3 == LoopCap(cap2, fetch_pc, \H0380A248, "loop1_count", 5, \H0380A250)
            cap4 == LoopCap(cap3, fetch_pc, \H0380A268, "new_loop_count", 5000, \H0380A26C)
            cap5 == LoopCap(cap4, fetch_pc, \H0380A81C, "loop2_count", 5, \H0380A824)
            cap6 == LoopCap(cap5, fetch_pc, \H03819454, "loop3_count", 5, \H03819460)
            returns == \/ CapReturns(counted, fetch_pc, \H0380A248, "loop1_count", 5)
                       \/ CapReturns(counted, fetch_pc, \H0380A81C, "loop2_count", 5)
                       \/ CapReturns(counted, fetch_pc, \H03819454, "loop3_count", 5)
        IN  IF instr = INVALID_READ THEN
                {[cpu |-> c, mem |-> m, io |-> i, exited |-> TRUE]}
            ELSE IF counted.total_steps >= STEP_LIMIT THEN
                {[cpu |-> counted, mem |-> forced.mem, io |-> forced.io, exited |-> TRUE]}
            ELSE IF returns \/ ~condition_met(cap6, Field(instr, 28, 4)) THEN
                {[cpu |-> cap6, mem |-> forced.mem, io |-> forced.io, exited |-> FALSE]}
            ELSE Execute(cap6, forced.mem, forced.io, instr, fetch_pc)

----------------------------------------------------------------------------
(* The machine: retro_init and retro_load_game build the state; the bus    *)
(* operations and the per-frame IOC tick are its steps.  last records the  *)
(* operation just performed (byte values widened to words), steps counts   *)
(* the operations performed since construction.                            *)

MaxSteps == 5

\* the loaded image sizes explored: a two-word image and a full 2 MiB image
RomSizes == {8, ROM_SIZE}

\* fread's bytes: the image is nonzero in its first eight and last four bytes
RomImage(size) ==
    [idx \in (0..7) \cup ((size - 4)..(size - 1)) |-> ((idx % 251) * 17 + 225) % 256]

memory_create(size, rom_base) ==
    [ram |-> [idx \in {} |-> 0],
     rom |-> RomImage(size),
     rom_size |-> size,
     rom_base |-> IF rom_base # 0 THEN rom_base ELSE ROM_DEFAULT_BASE,
     is_boot_mode |-> TRUE]

Init ==
    /\ io = io_create(DEFAULT_WIDTH, DEFAULT_HEIGHT)
    /\ \E size \in RomSizes : mem = memory_create(size, \H03800000)
    /\ cpu = cpu_create
    /\ host = host_create
    /\ last = [op |-> "none", addr |-> W(0), val |-> W(0), res |-> W(0)]
    /\ steps = 0

WordX == <<\HA1B2, \HC3D4>>
ByteX == \H5A

ReadWord(addrs) ==
    /\ steps < MaxSteps
    /\ \E a \in addrs :
         last' = [op |-> "read_word", addr |-> a, val |-> W(0),
                  res |-> memory_read_word(mem, io, a)]
    /\ steps' = steps + 1
    /\ UNCHANGED <<mem, io, cpu, host>>

ReadByte(addrs) ==
    /\ steps < MaxSteps
    /\ \E a \in addrs :
         last' = [op |-> "read_byte", addr |-> a, val |-> W(0),
                  res |-> W(memory_read_byte(mem, io, a))]
    /\ steps' = steps + 1
    /\ UNCHANGED <<mem, io, cpu, host>>

WriteWord(inputs) ==
    /\ steps < MaxSteps
    /\ \E in \in inputs :
         LET r == memory_write_word(mem, io, in[1], in[2]) IN
         /\ mem' = r.mem
         /\ io' = r.io
         /\ last' = [op |-> "write_word", addr |-> in[1], val |-> in[2], res |-> W(0)]
    /\ steps' = steps + 1
    /\ UNCHANGED <<cpu, host>>

WriteByte(inputs) ==
    /\ steps < MaxSteps
    /\ \E in \in inputs :
         LET r == memory_write_byte(mem, io, in[1], in[2]) IN
         /\ mem' = r.mem
         /\ io' = r.io
         /\ last' = [op |-> "write_byte", addr |-> in[1], val |-> W(in[2]), res |-> W(0)]
    /\ steps' = steps + 1
    /\ UNCHANGED <<cpu, host>>

UpdateTimers ==
    /\ steps < MaxSteps
    /\ io' = io_update_timers(io)
    /\ last' = [op |-> "update_timers", addr |-> W(0), val |-> W(0), res |-> W(0)]
    /\ steps' = steps + 1
    /\ UNCHANGED <<mem, cpu, host>>

\* n consecutive frames in which the guest touches no register: retro_run's
\* io_update_timers, n times over
RECURSIVE Frames(_, _)
Frames(i, n) ==
    IF n = 0 THEN i
    ELSE IF n = 1 THEN io_update_timers(i)
    ELSE LET half == Frames(i, n \div 2)
         IN  IF half.cycles[1] >= 0 THEN Frames(half, n - n \div 2) ELSE half

\* the guest programs Timer 0 before the first frame (latch 1, then the
\* current-low) and then idles
RunFrames(counts) ==
    /\ steps < MaxSteps
    /\ io.cycles = <<0, 0>>
    /\ io.ioc.timer0_latch = W(1)
    /\ last.op = "write_word"
    /\ Masked(last.addr) = IOC_BASE + 1 * 4
    /\ \E n \in counts : io' = Frames(io, n)
    /\ last' = [op |-> "run_frames", addr |-> W(0), val |-> W(0), res |-> W(0)]
    /\ steps' = steps + 1
    /\ UNCHANGED <<mem, cpu, host>>

\* addresses of the RAM/ROM decoder's regions and their edges
HIGH_RAM == <<\H0420, 0>>
BusReadWordAddrs ==
    {W(0), W(\H00200000), W(\H00FFFFFD), W(\H01000000), W(\H02000004),
     W(\H02200000), W(\H03800000), W(\H03800005), HIGH_RAM}
BusReadByteAddrs ==
    {W(1), W(\H00200001), W(\H00FFFFFF), W(\H03800004)}
BusWriteWordInputs ==
    {W(0), W(\H00200000), W(\H00FFFFFD), W(\H02000004), W(\H02FF5500),
     W(MEMC_CONTROL), W(\H03800000), HIGH_RAM} \X {WordX}
BusWriteByteInputs ==
    {W(1), W(\H00200001), W(\H00FFFFFF), W(\H02000004), W(\H03800004)} \X {ByteX}

Next ==
    \/ ReadWord(BusReadWordAddrs)
    \/ ReadByte(BusReadByteAddrs)
    \/ WriteWord(BusWriteWordInputs)
    \/ WriteByte(BusWriteByteInputs)
    \/ UpdateTimers

Spec == Init /\ [][Next]_vars

\* addresses of IOC and VIDC registers
IOC_TIMER0_LOW == IOC_BASE + 1 * 4
IOC_TIMER0_LATCH == IOC_BASE + 5 * 4
IOC_TIMER1_LATCH == IOC_BASE + 6 * 4
IOC_IRQ_REQUEST_A == IOC_BASE + 8 * 4
IOC_IRQ_REQUEST_B == IOC_BASE + 11 * 4
IOC_IRQ_MASK_A == IOC_BASE + 9 * 4
IOC_FIQ_REQUEST == IOC_BASE + 14 * 4
IOC_FIQ_MASK == IOC_BASE + 15 * 4
VIDC_PALETTE0 == VIDC_BASE + 1 * 4
VIDC_H_DISPLAY_START == VIDC_BASE + 263 * 4

IoReadWordAddrs ==
    {W(VIDC_BASE), W(IOC_IRQ_REQUEST_A), W(IOC_TIMER0_LATCH)}
IoReadByteAddrs ==
    {W(VIDC_BASE), W(IOC_IRQ_REQUEST_A + 1)}
IoWriteWordInputs ==
    {<<W(IOC_TIMER0_LATCH), W(1)>>,
     <<W(IOC_IRQ_REQUEST_A), W(0)>>,
     <<W(IOC_IRQ_REQUEST_A), W(32)>>,
     <<W(IOC_IRQ_MASK_A), W(0)>>,
     <<W(IOC_FIQ_REQUEST), W(1)>>,
     <<W(IOC_FIQ_MASK), W(1)>>,
     <<W(VIDC_BASE), WordX>>,
     <<W(VIDC_PALETTE0), WordX>>,
     <<W(VIDC_H_DISPLAY_START), W(1)>>}
IoWriteByteInputs ==
    {W(VIDC_BASE), W(VIDC_BASE + 1), W(VIDC_PALETTE0 + 1),
     W(IOC_TIMER0_LATCH + 2), W(IOC_IRQ_REQUEST_A + 3)} \X {ByteX}

NextIO ==
    \/ ReadWord(IoReadWordAddrs)
    \/ ReadByte(IoReadByteAddrs)
    \/ WriteWord(IoWriteWordInputs)
    \/ WriteByte(IoWriteByteInputs)
    \/ UpdateTimers

SpecIO == Init /\ [][NextIO]_vars

\* Timer 0 programmed with latch 1 and run until its 32-bit current-low wraps:
\* from current-low 22418 the sum low + cycles_per_frame is 2^32 on the
\* 80531st frame
WrapLow == W(22418)
WrapFrames == {80530}
TimerWriteWordInputs ==
    {<<W(IOC_TIMER0_LATCH), W(1)>>,
     <<W(IOC_TIMER1_LATCH), W(1)>>,
     <<W(IOC_TIMER0_LOW), WrapLow>>,
     <<W(IOC_IRQ_REQUEST_A), W(0)>>}
TimerReadWordAddrs == {W(IOC_IRQ_REQUEST_A)}

NextTimer ==
    \/ ReadWord(TimerReadWordAddrs)
    \/ WriteWord(TimerWriteWordInputs)
    \/ UpdateTimers
    \/ RunFrames(WrapFrames)

SpecTimer == Init /\ [][NextTimer]_vars

----------------------------------------------------------------------------
(* libretro.cpp: retro_run, one frame.  host.pc is the position inside     *)
(* retro_run ("idle" between calls), host.i the index of its CPU loop,     *)
(* host.events the calls made so far by the frame in progress or, between  *)
(* frames, by the last one.                                                *)

MaxInstr == 24

\* the CPU loop's bound in retro_run
STEPS_PER_FRAME == 160000

\* io_render_frame with a frame buffer and a video callback: the register
\* state it leaves (the pixel buffers it fills are not part of this state)
io_render_frame(i) ==
    [i EXCEPT !.ioc.irq_request_a = Or32(@, W(8))]

\* the pixels io_create allocates for frame_buffer
FramePixels == DEFAULT_WIDTH * DEFAULT_HEIGHT

Min32(a, b) == IF Lt32(a, b) THEN a ELSE b

\* the bounds of io_render_frame's loops: y < frame_height && y <
\* display_height and x < frame_width && x < display_width
RenderRows(i) ==
    Min32(i.frame_height, Sub32(i.vidc.v_display_end, i.vidc.v_display_start))
RenderCols(i) ==
    Min32(i.frame_width, Sub32(i.vidc.h_display_end, i.vidc.h_display_start))

\* every pixel_idx = y * frame_width + x of the loops is below limit, for a
\* limit below 2^31: the columns of row 0 fit, and so does the last pixel
\* of the last row
RenderIndicesBelow(i, limit) ==
    \/ RenderRows(i) = W(0)
    \/ RenderCols(i) = W(0)
    \/ /\ limit > 0
       /\ LtN(RenderCols(i), limit + 1)
       /\ \/ RenderRows(i) = W(1)
          \/ /\ LtN(i.frame_width, limit + 1)
             /\ LtN(Sub32(RenderRows(i), W(1)),
                    (limit - N(RenderCols(i))) \div N(i.frame_width) + 1)

\* io_render_frame stays inside frame_buffer (FramePixels words) and inside
\* the RAM buffer it reads video_mem[pixel_idx] from
RenderInBounds(i) ==
    /\ RenderIndicesBelow(i, FramePixels)
    /\ RenderIndicesBelow(i, RAM_SIZE - (N(i.vidc.video_base) - RAM_BASE))

\* retro_run's IRQ block
retro_irq_entry(c, i) ==
    IF i.irq_pending /\ ~IsSet(c.cpsr, PSR_I) THEN
        [c EXCEPT
            !.spsr = c.cpsr,
            !.spsr_irq = c.cpsr,
            !.cpsr = Or32(Or32(And32(c.cpsr, Not32(PSR_MODE_MASK)), MODE_IRQ), PSR_I),
            !.registers = [c.registers EXCEPT ![14] = Add32(c.registers[15], W(4)),
                                              ![15] = W(\H18)]]
    ELSE c

\* retro_run's FIQ block
retro_fiq_entry(c, i) ==
    IF i.fiq_pending /\ ~IsSet(c.cpsr, PSR_F) THEN
        [c EXCEPT
            !.spsr = c.cpsr,
            !.spsr_fiq = c.cpsr,
            !.cpsr = Or32(Or32(And32(c.cpsr, Not32(PSR_MODE_MASK)), MODE_FIQ), PSR_F),
            !.registers = [c.registers EXCEPT ![14] = Add32(c.registers[15], W(4)),
                                              ![15] = W(\H1C)]]
    ELSE c

Did(op, a, v) == [op |-> op, addr |-> a, val |-> v, res |-> W(0)]

Idle == host.process = "alive" /\ host.pc = "idle"

\* retro_run with running false: it returns at once
FrameSkipped ==
    /\ steps < MaxInstr
    /\ Idle
    /\ ~host.running
    /\ host' = [host EXCEPT !.events = << >>]
    /\ last' = Did("frame_skipped", W(0), W(0))
    /\ steps' = steps + 1
    /\ UNCHANGED <<mem, io, cpu>>

\* input_poll_cb and handle_input; Escape clears running, the frame goes on
FrameBegin(keys) ==
    /\ steps < MaxInstr
    /\ Idle
    /\ host.running
    /\ \E escape \in keys :
         host' = [host EXCEPT !.pc = "timers", !.i = 0,
                              !.events = <<"input_poll">>,
                              !.running = ~escape]
    /\ last' = Did("input_poll", W(0), W(0))
    /\ steps' = steps + 1
    /\ UNCHANGED <<mem, io, cpu>>

FrameTimers ==
    /\ steps < MaxInstr
    /\ host.pc = "timers"
    /\ io' = io_update_timers(io)
    /\ host' = [host EXCEPT !.pc = "interrupts",
                            !.events = Append(@, "update_timers")]
    /\ last' = Did("update_timers", W(0), W(0))
    /\ steps' = steps + 1
    /\ UNCHANGED <<mem, cpu>>

\* the IRQ block, then the FIQ block
FrameInterrupts ==
    /\ steps < MaxInstr
    /\ host.pc = "interrupts"
    /\ cpu' = retro_fiq_entry(retro_irq_entry(cpu, io), io)
    /\ host' = [host EXCEPT !.pc = "cpu", !.events = Append(@, "interrupts")]
    /\ last' = Did("interrupts", W(0), W(0))
    /\ steps' = steps + 1
    /\ UNCHANGED <<mem, io>>

\* the events of the frame once the CPU loop has run its body
Stepped(events) ==
    IF events[Len(events)] = "cpu_step" THEN events ELSE Append(events, "cpu_step")

\* one iteration of the CPU loop
FrameCpuStep ==
    /\ steps < MaxInstr
    /\ host.pc = "cpu"
    /\ host.process = "alive"
    /\ LET pc == And32(cpu.registers[15], ADDR_MASK) IN
       IF Lt32(ADDR_MASK, pc) THEN
           /\ host' = [host EXCEPT !.running = FALSE, !.pc = "render"]
           /\ last' = Did("pc_out_of_bounds", pc, W(0))
           /\ UNCHANGED <<mem, io, cpu>>
       ELSE
           \E o \in cpu_step(cpu, mem, io) :
               /\ cpu' = o.cpu
               /\ mem' = o.mem
               /\ io' = o.io
               /\ host' = [host EXCEPT
                              !.i = @ + 1,
                              !.process = IF o.exited THEN "exited" ELSE @,
                              !.pc = IF ~o.exited /\ host.i + 1 = STEPS_PER_FRAME
                                     THEN "render" ELSE @,
                              !.events = Stepped(@)]
               /\ last' = Did("cpu_step", pc, memory_read_word(mem, io, pc))
    /\ steps' = steps + 1

\* the rest of the CPU loop when the guest spins: a cpu_step that changes
\* nothing but total_steps is repeated until i reaches the loop's bound
FrameCpuIdle ==
    /\ steps < MaxInstr
    /\ host.pc = "cpu"
    /\ host.process = "alive"
    /\ LET remaining == STEPS_PER_FRAME - host.i IN
       /\ cpu.total_steps + remaining < STEP_LIMIT
       /\ cpu_step(cpu, mem, io) =
              {[cpu |-> [cpu EXCEPT !.total_steps = @ + 1],
                mem |-> mem, io |-> io, exited |-> FALSE]}
       /\ cpu' = [cpu EXCEPT !.total_steps = @ + remaining]
    /\ host' = [host EXCEPT !.i = STEPS_PER_FRAME, !.pc = "render",
                            !.events = Stepped(@)]
    /\ last' = Did("cpu_idle", And32(cpu.registers[15], ADDR_MASK), W(0))
    /\ steps' = steps + 1
    /\ UNCHANGED <<mem, io>>

\* io_render_frame and the return to the frontend.  A frame that indexes
\* outside frame_buffer or the RAM buffer either goes on or ends the process
\* (SIGSEGV, heap corruption).
FrameRender ==
    /\ steps < MaxInstr
    /\ host.pc = "render"
    /\ io' = io_render_frame(io)
    /\ \E outcome \in IF RenderInBounds(io) THEN {host.process}
                       ELSE {host.process, "faulted"} :
         host' = [host EXCEPT !.pc = "idle", !.events = Append(@, "video"),
                              !.process = outcome]
    /\ last' = Did("video", W(0), W(0))
    /\ steps' = steps + 1
    /\ UNCHANGED <<mem, cpu>>

\* retro_reset
RetroReset ==
    /\ steps < MaxInstr
    /\ Idle
    /\ last.op # "retro_reset"
    /\ cpu' = cpu_reset(cpu)
    /\ last' = Did("retro_reset", W(0), W(0))
    /\ steps' = steps + 1
    /\ UNCHANGED <<mem, io, host>>

\* cpu_step called by the owner of the CPU between frames
CpuStep ==
    /\ steps < MaxSteps
    /\ Idle
    /\ \E o \in cpu_step(cpu, mem, io) :
         /\ cpu' = o.cpu
         /\ mem' = o.mem
         /\ io' = o.io
         /\ host' = [host EXCEPT !.process = IF o.exited THEN "exited" ELSE @]
    /\ last' = LET pc == And32(cpu.registers[15], ADDR_MASK)
               IN  Did("cpu_step", pc, memory_read_word(mem, io, pc))
    /\ steps' = steps + 1

----------------------------------------------------------------------------
(* Guest programs: ROM images, as words at byte offsets of the ROM.  The   *)
(* rest of the 2 MiB image is zero (ANDEQ R0, R0, R0).                     *)

\* the bytes of the little-endian image holding the given words
RomWith(words) ==
    [idx \in UNION {{o, o + 1, o + 2, o + 3} : o \in DOMAIN words} |->
        Lane(words[idx - (idx % 4)], idx % 4)]

B_SELF == <<\HEAFF, \HFFFE>>

Programs ==
    { \* MOV PC, #3
      (0 :> <<\HE3A0, \HF003>>),
      \* SWI 0; at the vector, B .
      (0 :> <<\HEF00, \H0000>>) @@ (8 :> B_SELF),
      \* BL 0x10; B .; at 0x10, MOV PC, R14
      (0 :> <<\HEB00, \H0002>>) @@ (4 :> B_SELF) @@ (16 :> <<\HE1A0, \HF00E>>),
      \* B 0x01000000: no memory there
      (0 :> <<\HEA3F, \HFFFE>>),
      \* CDP; LDMIB R0, {} ; B .
      (0 :> <<\HEE00, \H0000>>) @@ (4 :> <<\HE900, \H0000>>) @@ (8 :> B_SELF),
      \* B 0x0380A248, where B . sits
      (0 :> <<\HEAE0, \H2890>>) @@ (\HA248 :> B_SELF),
      \* B 0x0380A5EC, where SWI 0 sits; at the vector, B 0x0380A5EC
      (0 :> <<\HEAE0, \H2979>>) @@ (8 :> <<\HEAE0, \H2977>>)
          @@ (\HA5EC :> <<\HEF00, \H0000>>),
      \* B 0x0380A5EC, where BL . sits
      (0 :> <<\HEAE0, \H2979>>) @@ (\HA5EC :> <<\HEBFF, \HFFFE>>),
      \* B 0x0380A248, where CDP sits; then B 0x0380A248
      (0 :> <<\HEAE0, \H2890>>) @@ (\HA248 :> <<\HEE00, \H0000>>)
          @@ (\HA24C :> <<\HEAFF, \HFFFD>>),
      \* MOV R1, #0x400000; MOV R0, #0xFF; STR R0, [R1]; LDRB R2, [R1], #1;
      \* STMIA R1!, {R0, R2}; LDMDA R1, {R3, R4}; MOVS R5, R0, ASR R6;
      \* MUL R0, R1, R2 (bits 7..4 = 1001); SUBS R0, R0, #1; B .
      (0 :> <<\HE3A0, \H1501>>) @@ (4 :> <<\HE3A0, \H00FF>>)
          @@ (8 :> <<\HE581, \H0000>>) @@ (12 :> <<\HE4D1, \H2001>>)
          @@ (16 :> <<\HE8A1, \H0005>>) @@ (20 :> <<\HE811, \H0018>>)
          @@ (24 :> <<\HE1B0, \H5650>>) @@ (28 :> <<\HE000, \H0291>>)
          @@ (32 :> <<\HE250, \H0001>>) @@ (36 :> B_SELF),
      \* B 0x0380A598, where B . sits
      (0 :> <<\HEAE0, \H2964>>) @@ (\HA598 :> B_SELF),
      \* B .
      (0 :> B_SELF) }

InitCpu ==
    /\ io = io_create(DEFAULT_WIDTH, DEFAULT_HEIGHT)
    /\ \E p \in Programs :
         mem = [memory_create(ROM_SIZE, \H03800000) EXCEPT !.rom = RomWith(p)]
    /\ cpu = cpu_create
    /\ host = host_create
    /\ last = Did("none", W(0), W(0))
    /\ steps = 0

NextCpu ==
    \/ FrameSkipped
    \/ FrameBegin(BOOLEAN)
    \/ FrameTimers
    \/ FrameInterrupts
    \/ FrameCpuStep
    \/ FrameCpuIdle
    \/ FrameRender
    \/ RetroReset

SpecCpu == InitCpu /\ [][NextCpu]_vars

\* The interrupt paths.  Nothing in cpu.cpp or libretro.cpp clears I or F,
\* so after cpu_create both stay set; here the owner of the arm3_cpu_t has
\* stored a CPSR of its own in the struct before the first call.
RESET_CPSR == Or32(Or32(PSR_I, PSR_F), MODE_SVC)
IrqCpsrs ==
    {RESET_CPSR, MODE_SVC, Or32(PSR_C, MODE_USR), Or32(PSR_I, MODE_SVC),
     Or32(PSR_F, MODE_USR)}

\* B . at the reset, IRQ and FIQ vectors
VectorProgram == (0 :> B_SELF) @@ (\H18 :> B_SELF) @@ (\H1C :> B_SELF)

IrqWriteInputs ==
    {<<W(IOC_FIQ_REQUEST), W(1)>>,
     <<W(IOC_FIQ_MASK), W(1)>>,
     <<W(IOC_IRQ_REQUEST_A), W(0)>>,
     <<W(IOC_IRQ_MASK_A), W(0)>>,
     <<W(IOC_TIMER0_LATCH), W(1000)>>}

InitIrq ==
    /\ io = io_create(DEFAULT_WIDTH, DEFAULT_HEIGHT)
    /\ mem = [memory_create(ROM_SIZE, \H03800000) EXCEPT !.rom = RomWith(VectorProgram)]
    /\ \E p \in IrqCpsrs : cpu = [cpu_create EXCEPT !.cpsr = p]
    /\ host = host_create
    /\ last = Did("none", W(0), W(0))
    /\ steps = 0

NextIrq ==
    \/ Idle /\ WriteWord(IrqWriteInputs)
    \/ Idle /\ UpdateTimers
    \/ CpuStep
    \/ FrameBegin({FALSE})
    \/ FrameTimers
    \/ FrameInterrupts
    \/ FrameCpuStep
    \/ FrameCpuIdle
    \/ FrameRender

SpecIrq == InitIrq /\ [][NextIrq]_vars

----------------------------------------------------------------------------
(* Properties of the address decoder *)

IsWrite(l) == l.op \in {"write_word", "write_byte"}
IsRead(l) == l.op \in {"read_word", "read_byte"}

\* section 3's low alias 0x00000000-0x001FFFFF
InLowAlias(address) == Masked(address) < \H00200000

\* a word write to the MEMC control register address
IsMemcWrite(l) == l.op = "write_word" /\ Masked(l.addr) = MEMC_CONTROL

\* the state a bus write leaves behind, as <<mem, io>>
Effect(r) == <<r.mem, r.io>>

\* C1: every bus operation masks its address to 26 bits before decoding:
\* op(a) returns what op(a & 0x03FFFFFF) returns and has the same effect on
\* RAM, ROM and MMIO state.
C1_EveryOpMasksAddress ==
    [][LET a26 == And32(last'.addr, ADDR_MASK) IN
       /\ last'.op = "read_word" =>
            last'.res = memory_read_word(mem, io, a26)
       /\ last'.op = "read_byte" =>
            last'.res = W(memory_read_byte(mem, io, a26))
       /\ last'.op = "write_word" =>
            <<mem', io'>> = Effect(memory_write_word(mem, io, a26, last'.val))
       /\ last'.op = "write_byte" =>
            <<mem', io'>> = Effect(memory_write_byte(mem, io, a26, N(last'.val)))
      ]_vars

\* the content of the ROM at the offset the low alias wraps to, and of the RAM
LowAliasRomContent(l) ==
    LET off == (Masked(l.addr) % \H00200000) % mem.rom_size IN
    IF l.op = "read_word" THEN RomWord(mem, off) ELSE W(RomByte(mem, off))
LowAliasRamContent(l) ==
    IF l.op = "read_word" THEN RamWord(mem, Masked(l.addr))
    ELSE W(RamByte(mem, Masked(l.addr)))

\* C2: a word or byte read in the low alias returns ROM content only while
\* boot mode is set; once boot mode is clear (the flag is clear, or boot was
\* exited by the MEMC-control write just performed) it returns the RAM content
\* at that address.
C2_LowAliasReadsRamAfterBoot ==
    [][(IsRead(last') /\ InLowAlias(last'.addr)) =>
          IF mem.is_boot_mode /\ ~IsMemcWrite(last)
          THEN (last'.op = "read_word" /\ ~WithinRomWord(mem,
                    (Masked(last'.addr) % \H00200000) % mem.rom_size))
               \/ last'.res = LowAliasRomContent(last')
          ELSE last'.res = LowAliasRamContent(last')
      ]_vars

\* C3: a word write to the MEMC control register clears boot_mode, every later
\* MEMC-control write leaves it clear, and a word read at 0 after the write
\* returns RAM word 0 instead of ROM word 0.
C3_MemcWriteClearsBootMode ==
    [][/\ IsMemcWrite(last') => ~mem'.is_boot_mode
       /\ ~mem.is_boot_mode => ~mem'.is_boot_mode
       /\ (IsMemcWrite(last) /\ last'.op = "read_word" /\ last'.addr = W(0)) =>
             last'.res = RamWord(mem, 0)
      ]_vars

\* the ROM bytes as loaded, whatever mem.rom now holds
LoadedRomByte(idx) ==
    LET image == RomImage(mem.rom_size) IN
    IF idx \in DOMAIN image THEN image[idx] ELSE 0
LoadedRomWord(idx) ==
    FromBytes(LoadedRomByte(idx), LoadedRomByte(idx + 1),
              LoadedRomByte(idx + 2), LoadedRomByte(idx + 3))

\* word addresses in the primary ROM window, the ROM alias and the low alias,
\* the last of each straddling the end of the ROM
RomWordAddrs ==
    {mem.rom_base, mem.rom_base + 4, mem.rom_base + mem.rom_size - 4,
     mem.rom_base + mem.rom_size - 2,
     \H02000000, \H02000004, \H021FFFFC, \H021FFFFE,
     0, 4, \H001FFFFC, \H001FFFFE}

\* the ROM offset section 4.1 resolves a ROM-region address to
RomOffsetOf(a) ==
    IF a >= mem.rom_base THEN a - mem.rom_base
    ELSE (a % \H00200000) % mem.rom_size

\* C4: after any sequence of bus writes every byte of the ROM buffer equals
\* its value after load, and write_word(a, v) followed by read_word(a), for a
\* word seen through the primary window, the ROM alias or the boot-mode low
\* alias, returns what read_word(a) returned before the write: the original
\* ROM word, for every word wholly inside the loaded ROM.
C4_RomNeverMutated ==
    /\ \A idx \in DOMAIN mem.rom \cup DOMAIN RomImage(mem.rom_size) :
          RomByte(mem, idx) = LoadedRomByte(idx)
    /\ \A a \in RomWordAddrs : \A v \in {W(0), WordX, INVALID_READ} :
          LET before == memory_read_word(mem, io, W(a))
              r == memory_write_word(mem, io, W(a), v)
              after == memory_read_word(r.mem, r.io, W(a))
          IN  /\ after = before
              /\ RomOffsetOf(a) + 4 <= mem.rom_size =>
                    after = LoadedRomWord(RomOffsetOf(a))

\* C4 witness: a byte write into the loaded ROM's primary window has just been
\* performed, after an earlier operation.
C4_Witness ==
    /\ last.op = "write_byte"
    /\ Masked(last.addr) = mem.rom_base + 4
    /\ steps >= 2

\* the regions of section 3's table, for a masked address
InMappedRegion(a) ==
    \/ a >= RAM_BASE /\ a < RAM_BASE + RAM_SIZE
    \/ a >= \H02000000 /\ a < \H02200000
    \/ a >= IOC_BASE /\ a < IOC_BASE + IOC_SIZE
    \/ a >= VIDC_BASE /\ a < VIDC_BASE + VIDC_SIZE
    \/ a >= mem.rom_base /\ a < mem.rom_base + mem.rom_size

\* a word access that is not wholly inside a mapped region
IsInvalidWordAccess(a) ==
    \/ ~InMappedRegion(a)
    \/ a >= RAM_BASE + RAM_SIZE - 3 /\ a < RAM_BASE + RAM_SIZE
    \/ a >= mem.rom_base + mem.rom_size - 3 /\ a < mem.rom_base + mem.rom_size

\* C5: a word access not wholly inside a mapped region is invalid: read_word
\* returns 0xFFFFFFFF and write_word changes no RAM, ROM, VIDC or IOC state.
C5_InvalidWordAccess ==
    [][/\ (last'.op = "read_word" /\ IsInvalidWordAccess(Masked(last'.addr))) =>
             last'.res = INVALID_READ
       /\ (last'.op = "write_word" /\ IsInvalidWordAccess(Masked(last'.addr))) =>
             /\ mem' = mem
             /\ io'.vidc = io.vidc
             /\ io'.ioc = io.ioc
      ]_vars

\* boot mode is clear: the flag is clear, or the operation just performed is
\* the MEMC-control write that exits boot mode
BootModeClear == ~mem.is_boot_mode \/ IsMemcWrite(last)

DecodesToRam(a) ==
    \/ a >= \H00200000 /\ a < RAM_SIZE
    \/ a >= 0 /\ a < \H00200000 /\ BootModeClear

\* C6: for every address a that decodes to RAM and every byte v,
\* write_byte(a, v) followed by read_byte(a) returns v, at each of the four
\* byte offsets of every aligned word.
C6_RamByteRoundTrip ==
    \A w \in {0, \H00000100, \H001FFFFC, \H00200000, \H00200004, \H00FFFFFC} :
      \A k \in 0..3 : \A v \in {0, ByteX, 255} :
        LET r == memory_write_byte(mem, io, W(w + k), v) IN
        DecodesToRam(w + k) => memory_read_byte(r.mem, r.io, W(w + k)) = v

----------------------------------------------------------------------------
(* Properties of the IOC and VIDC registers *)

\* aligned addresses of IOC and VIDC registers: the VIDC control register,
\* palette, border and cursor entries, timing registers, and every IOC register
RegisterWordAddrs ==
    {VIDC_BASE + 4 * o : o \in {0, 1, 256, 257, 260, 263, 274, 277}}
        \cup {IOC_BASE + 4 * o : o \in 0..17}

LaneValues == {0, ByteX, 255}

\* C7: for every IOC or VIDC register at aligned address w, every byte lane k
\* and every byte v, after write_byte(w + k, v) the three lanes of
\* read_word(w) other than k are what read_word(w) returned before the write,
\* the VIDC control register with its VFLY status shadow included.
C7_ByteWriteKeepsOtherLanes ==
    \A w \in RegisterWordAddrs : \A k \in 0..3 : \A v \in LaneValues :
        LET before == memory_read_word(mem, io, W(w))
            r == memory_write_byte(mem, io, W(w + k), v)
            after == memory_read_word(r.mem, r.io, W(w))
        IN  \A j \in (0..3) \ {k} : Lane(after, j) = Lane(before, j)

IsIocWrite(l) ==
    /\ IsWrite(l)
    /\ Masked(l.addr) >= IOC_BASE
    /\ Masked(l.addr) < IOC_BASE + IOC_SIZE

\* C8: in every state reached after an IOC register write or an update_timers
\* call, irq_pending is true exactly when (irq_request_a & irq_mask_a) != 0 or
\* (irq_request_b & irq_mask_b) != 0, and fiq_pending exactly when
\* (fiq_request & fiq_mask) != 0.
C8_PendingFlagsFollowRequests ==
    (IsIocWrite(last) \/ last.op = "update_timers") =>
        /\ io.irq_pending <=>
              (\/ And32(io.ioc.irq_request_a, io.ioc.irq_mask_a) # W(0)
               \/ And32(io.ioc.irq_request_b, io.ioc.irq_mask_b) # W(0))
        /\ io.fiq_pending <=> (And32(io.ioc.fiq_request, io.ioc.fiq_mask) # W(0))

\* C9: a word write of v to IRQ Request A, IRQ Request B or FIQ Request only
\* clears bits: the register afterwards equals old & ~v.
C9_RequestWriteOnlyClears ==
    [][last'.op = "write_word" =>
        /\ Masked(last'.addr) = IOC_IRQ_REQUEST_A =>
              io'.ioc.irq_request_a = And32(io.ioc.irq_request_a, Not32(last'.val))
        /\ Masked(last'.addr) = IOC_IRQ_REQUEST_B =>
              io'.ioc.irq_request_b = And32(io.ioc.irq_request_b, Not32(last'.val))
        /\ Masked(last'.addr) = IOC_FIQ_REQUEST =>
              io'.ioc.fiq_request = And32(io.ioc.fiq_request, Not32(last'.val))
      ]_vars

HasBit(w, b) == BitAnd(w[2], b) = b

\* C10: every update_timers call in which a timer's current-low reaches its
\* latch sets that timer's request bit (Timer 0: bit 5, Timer 1: bit 6 of IRQ
\* Request A) and increments its current-high; with latch = 1 the timer's
\* request bit is set on every call; and every call sets VFLY (bit 3).
C10_TimerTickAssertsRequests ==
    [][last'.op = "update_timers" =>
        /\ Ge32(Add32(io.ioc.timer0_low, W(cycles_per_frame)), io.ioc.timer0_latch) =>
              /\ HasBit(io'.ioc.irq_request_a, 32)
              /\ io'.ioc.timer0_high = Add32(io.ioc.timer0_high, W(1))
        /\ Ge32(Add32(io.ioc.timer1_low, W(cycles_per_frame)), io.ioc.timer1_latch) =>
              /\ HasBit(io'.ioc.irq_request_a, 64)
              /\ io'.ioc.timer1_high = Add32(io.ioc.timer1_high, W(1))
        /\ io.ioc.timer0_latch = W(1) => HasBit(io'.ioc.irq_request_a, 32)
        /\ io.ioc.timer1_latch = W(1) => HasBit(io'.ioc.irq_request_a, 64)
        /\ HasBit(io'.ioc.irq_request_a, 8)
      ]_vars

----------------------------------------------------------------------------
(* Properties of the CPU and of the frame loop *)

\* C11: after every cpu_step, whatever the instruction, bits 1..0 of R15
\* are zero.
C11_PcWordAligned ==
    last.op = "cpu_step" => cpu.registers[15][2] % 4 = 0

Mode(psr) == And32(psr, PSR_MODE_MASK)

\* the step is an interrupt entry into the given mode: retro_run's interrupt
\* blocks or a cpu_step have left the CPU in that mode, which it was not in
EntryInto(mode) ==
    /\ last'.op \in {"interrupts", "cpu_step"}
    /\ Mode(cpu.cpsr) # mode
    /\ Mode(cpu'.cpsr) = mode

BothPendingAndEnabled ==
    /\ host.pc = "interrupts"
    /\ io.irq_pending
    /\ io.fiq_pending
    /\ ~IsSet(cpu.cpsr, PSR_I)
    /\ ~IsSet(cpu.cpsr, PSR_F)

EnabledRequest(i) ==
    \/ And32(i.ioc.irq_request_a, i.ioc.irq_mask_a) # W(0)
    \/ And32(i.ioc.irq_request_b, i.ioc.irq_mask_b) # W(0)

C15_ResetState ==
    last.op = "retro_reset" =>
        /\ cpu.registers[15] = W(0)
        /\ cpu.cpsr = Or32(Or32(PSR_I, PSR_F), MODE_SVC)
        /\ \A r \in 0..14 : cpu.registers[r] = W(0)
        /\ mem.is_boot_mode

\* the step is a cpu_step that fetched (no interrupt entry, no exit) an
\* instruction whose condition passes
Fetched ==
    /\ last'.op = "cpu_step"
    /\ ~(io.irq_pending /\ ~IsSet(cpu.cpsr, PSR_I))
    /\ host'.process = "alive"
    /\ condition_met(cpu, Field(last'.val, 28, 4))

IsSwi(instr) == Field(instr, 24, 4) = 15

\* C16: a SWI whose condition passes, at address A with CPSR P, leaves
\* SPSR_svc = P, R14 = A + 4, mode SVC, I set and PC = 8; the other flags and
\* F are as in P.
C16_SwiEntry ==
    [][Fetched /\ IsSwi(last'.val) =>
          /\ cpu'.spsr = cpu.cpsr
          /\ cpu'.registers[14] = Add32(last'.addr, W(4))
          /\ cpu'.registers[15] = W(8)
          /\ cpu'.cpsr = Or32(Or32(And32(cpu.cpsr, Not32(PSR_MODE_MASK)), MODE_SVC), PSR_I)]_vars

IsBranch(instr) == Field(instr, 25, 3) = 5

\* signext24(f) * 4, as a uint32_t
BranchOffset(instr) ==
    LET f == <<instr[1] % 256, instr[2]>>
        s == IF f[1] >= 128 THEN <<f[1] + \HFF00, f[2]>> ELSE f
    IN  Add32(Add32(s, s), Add32(s, s))

\* C17: a taken B or BL at address A with 24-bit field f sets
\* PC = (A + 8 + 4 * signext24(f)) & 0x03FFFFFF, and BL sets R14 = A + 4 (the
\* value a following MOV PC, R14 puts in PC).
C17_BranchTarget ==
    [][Fetched /\ IsBranch(last'.val) =>
          /\ cpu'.registers[15] =
                And32(Add32(Add32(last'.addr, W(8)), BranchOffset(last'.val)), ADDR_MASK)
          /\ Bit32(last'.val, 24) = 1 => cpu'.registers[14] = Add32(last'.addr, W(4))]_vars

\* C18: when the fetched word is 0xFFFFFFFF the process is not terminated:
\* running becomes false and the frame ends with no further CPU step.
C18_InvalidFetchHalts ==
    last.op = "cpu_step" /\ last.val = INVALID_READ =>
        /\ host.process = "alive"
        /\ ~host.running
        /\ host.pc # "cpu"

\* the instruction matches none of cpu_step's classes: bits 27..24 are 1001
\* (LDM/STM with P = 1) or 1100, 1101, 1110 (coprocessor)
IsUnimplemented(instr) == Field(instr, 24, 4) \in {9, 12, 13, 14}

\* C19: an instruction whose condition passes and that decodes to no
\* implemented class changes no register other than PC, no PSR bit and no
\* memory: the step only advances PC by 4.
C19_UnimplementedOnlyAdvancesPc ==
    [][Fetched /\ IsUnimplemented(last'.val) =>
          /\ cpu'.registers = [cpu.registers EXCEPT ![15] = Add32(@, W(4))]
          /\ cpu'.cpsr = cpu.cpsr
          /\ cpu'.spsr = cpu.spsr
          /\ cpu'.spsr_irq = cpu.spsr_irq
          /\ cpu'.spsr_fiq = cpu.spsr_fiq
          /\ mem' = mem
          /\ io' = io]_vars

\* the calls of one frame, in retro_run's order
FrameOrder == <<"input_poll", "update_timers", "interrupts", "cpu_step", "video">>

IsPrefix(s, t) == Len(s) <= Len(t) /\ \A k \in 1..Len(s) : s[k] = t[k]

\* C20: within one retro_run the input poll, the IOC timer update, the
\* interrupt sampling and entry, up to 160000 CPU steps and the VIDC scan-out
\* with the video callback happen once each and in this order before the
\* return; the timers are never updated between two CPU steps of a frame.
C20_FramePhasesInOrder ==
    [][/\ IsPrefix(host'.events, FrameOrder)
       /\ host'.i <= STEPS_PER_FRAME
       /\ host.pc # "idle" /\ host'.pc = "idle" =>
              host'.events = FrameOrder /\ host'.i = STEPS_PER_FRAME
       /\ host.pc = "cpu" => io'.cycles = io.cycles
       /\ io'.cycles # io.cycles => host.pc = "timers"]_vars

\* a frame has run to its end: 160000 CPU steps between the interrupt
\* sampling and the video callback
C20_Witness ==
    /\ host.pc = "idle"
    /\ host.events = FrameOrder
    /\ host.i = STEPS_PER_FRAME
    /\ cpu.total_steps >= STEPS_PER_FRAME
    /\ io.cycles # <<0, 0>>

----------------------------------------------------------------------------
(* The countdown loop: MOV R0, #5; SUBS R0, R0, #1; BNE.  retro_run is a   *)
(* sequential function that the frontend calls once per frame, so every    *)
(* phase of the frame that can run does run: weak fairness on each.        *)

\* BNE at address 8 with offset field -4: to address 0, the MOV
BNE_TO_MOV == <<\H1AFF, \HFFFC>>
\* BNE at address 8 with offset field -3: to address 4, the SUBS
BNE_TO_SUBS == <<\H1AFF, \HFFFD>>

CountdownProgram(bne) ==
    (0 :> <<\HE3A0, \H0005>>) @@ (4 :> <<\HE250, \H0001>>) @@ (8 :> bne)

InitLoop ==
    /\ io = io_create(DEFAULT_WIDTH, DEFAULT_HEIGHT)
    /\ \E bne \in {BNE_TO_MOV, BNE_TO_SUBS} :
         mem = [memory_create(ROM_SIZE, \H03800000)
                   EXCEPT !.rom = RomWith(CountdownProgram(bne))]
    /\ cpu = cpu_create
    /\ host = host_create
    /\ last = Did("none", W(0), W(0))
    /\ steps = 0

NextLoop ==
    \/ RetroReset
    \/ FrameBegin(BOOLEAN)
    \/ FrameTimers
    \/ FrameInterrupts
    \/ FrameCpuStep

\* retro_run's loop takes its next iteration: cpu_step always returns or
\* exits, so the loop's condition alone decides whether the iteration runs
CpuLoopIteration ==
    /\ steps < MaxInstr
    /\ host.pc = "cpu"
    /\ host.process = "alive"
    /\ steps' = steps + 1

SpecLoop ==
    /\ InitLoop
    /\ [][NextLoop]_vars
    /\ WF_vars(FrameBegin(BOOLEAN))
    /\ WF_vars(FrameTimers)
    /\ WF_vars(FrameInterrupts)
    /\ WF_steps(CpuLoopIteration)

----------------------------------------------------------------------------
(* Properties of the instruction set                                       *)

\* the loop has been left: PC is past the BNE, R0 = 0, Z set, N clear
LeftLoop ==
    /\ Lt32(W(8), cpu.registers[15])
    /\ cpu.registers[0] = W(0)
    /\ IsSet(cpu.cpsr, PSR_Z)
    /\ ~IsSet(cpu.cpsr, PSR_N)

TIMER0_BIT == W(32)

\* scenario (e): timer0_latch = 1000, timer 0 enabled in irq_mask_a, I clear,
\* and update_timers was the call just made
TimerIrqArmed ==
    /\ last.op = "update_timers"
    /\ io.ioc.timer0_latch = W(1000)
    /\ And32(io.ioc.irq_mask_a, TIMER0_BIT) # W(0)
    /\ ~IsSet(cpu.cpsr, PSR_I)

----------------------------------------------------------------------------
(* The ROM file could not be opened: memory_create leaves the ROM buffer   *)
(* zero-filled and rom_size = 0.  An access to a ROM alias then divides by *)
(* zero; the build either traps (SIGFPE ends the process) or carries on    *)
(* with the offset RomOffset gives.                                        *)

memory_create_NoRom(rom_base) ==
    [memory_create(0, rom_base) EXCEPT !.rom = [idx \in {} |-> 0]]

InitNoRom ==
    /\ io = io_create(DEFAULT_WIDTH, DEFAULT_HEIGHT)
    /\ mem = memory_create_NoRom(\H03800000)
    /\ cpu = cpu_create
    /\ host = host_create
    /\ last = Did("none", W(0), W(0))
    /\ steps = 0

\* the division of the access traps
Trap(op, address) ==
    /\ steps < MaxSteps
    /\ Idle
    /\ DividesByZero(mem, address)
    /\ host' = [host EXCEPT !.process = "faulted"]
    /\ last' = Did(op, address, W(0))
    /\ steps' = steps + 1
    /\ UNCHANGED <<mem, io, cpu>>

ReadWordTrap(addrs) == \E a \in addrs : Trap("read_word", a)

ReadByteTrap(addrs) == \E a \in addrs : Trap("read_byte", a)

\* the trap in cpu_step's instruction fetch
CpuStepTrap ==
    /\ ~(io.irq_pending /\ ~IsSet(cpu.cpsr, PSR_I))
    /\ Trap("cpu_step", And32(cpu.registers[15], ADDR_MASK))

NoRomReadWordAddrs ==
    {W(0), W(\H001FFFFC), W(\H00200000), W(\H02000004), W(\H03800000), HIGH_RAM}
NoRomReadByteAddrs ==
    {W(1), W(\H00200001), W(\H02000004), W(\H03800004)}
NoRomWriteWordInputs ==
    {W(0), W(\H00200000), W(\H03800000)} \X {WordX}

NextNoRom ==
    \/ Idle /\ ReadWord(NoRomReadWordAddrs)
    \/ ReadWordTrap(NoRomReadWordAddrs)
    \/ Idle /\ ReadByte(NoRomReadByteAddrs)
    \/ ReadByteTrap(NoRomReadByteAddrs)
    \/ Idle /\ WriteWord(NoRomWriteWordInputs)
    \/ CpuStep
    \/ CpuStepTrap
    \/ RetroReset

SpecNoRom == InitNoRom /\ [][NextNoRom]_vars

\* C24: with the ROM not loaded (rom_size = 0) the system keeps running:
\* after reset no bus read and no instruction fetch faults the emulator,
\* and a read from the boot alias, the ROM alias or the ROM returns zero or
\* the sentinel.
C24_NoRomKeepsRunning ==
    mem.rom_size = 0 =>
        /\ host.process = "alive"
        /\ last.op \in {"read_word", "read_byte"}
           /\ (InRomAlias(Masked(last.addr)) \/ GeN(last.addr, mem.rom_base)) =>
               last.res \in {W(0), INVALID_READ}

----------------------------------------------------------------------------
(* One instruction under test.  The guest sets up R0 = 0xFF, R1 = 0x400000 *)
(* (a RAM address), R2 = 8 and R3 = 3, stores R1, R3, R0 and R2 to the     *)
(* words at R1 - 8, R1 - 4, R1 and R1 + 4, runs the instruction at 0x20    *)
(* and spins at 0x24.                                                      *)

TEST_ADDR == \H20

Prologue ==
    (0 :> <<\HE3A0, \H00FF>>) @@ (4 :> <<\HE3A0, \H1501>>)
        @@ (8 :> <<\HE3A0, \H2008>>) @@ (12 :> <<\HE3A0, \H3003>>)
        @@ (16 :> <<\HE501, \H1008>>) @@ (20 :> <<\HE501, \H3004>>)
        @@ (24 :> <<\HE581, \H0000>>) @@ (28 :> <<\HE581, \H2004>>)

\* LDR/STR[B] with condition AL: I (bit 25), P, U, B, W, L, Rn, Rd, bits 11..0
SingleTransferWord(i25, p, u, b, w, l, rn, rd, low12) ==
    <<\HE400 + i25 * \H200 + p * \H100 + u * \H80 + b * \H40 + w * \H20
          + l * \H10 + rn,
      rd * \H1000 + low12>>

\* LDM/STM with condition AL: P, U, W, L, Rn, register list
BlockTransferWord(p, u, w, l, rn, list) ==
    <<\HE800 + p * \H100 + u * \H80 + w * \H20 + l * \H10 + rn, list>>

\* LDR/STR[B] R4 or R0, [R1, #+-4] and [R1], #+-4 in every P/U/B/W/L form, and
\* with the register offsets R2 and R2, LSL #1
SingleTransfers ==
    { SingleTransferWord(0, p, u, b, w, l, 1, IF l = 1 THEN 4 ELSE 0, 4) :
          p \in 0..1, u \in 0..1, b \in 0..1, w \in 0..1, l \in 0..1 }
    \cup
    { SingleTransferWord(1, p, u, 0, 0, l, 1, IF l = 1 THEN 4 ELSE 0, low12) :
          p \in 0..1, u \in 0..1, l \in 0..1, low12 \in {\H002, \H082} }

\* LDM R1, {R4, R5} and STM R1, {R0, R3} in every P/U/W form
BlockTransfers ==
    { BlockTransferWord(p, u, w, l, 1, IF l = 1 THEN \H0030 ELSE \H0009) :
          p \in 0..1, u \in 0..1, w \in 0..1, l \in 0..1 }

\* MOV R4, PC; ADD R4, PC, #0; ADD R4, R2, PC; LDR R4, [PC]; LDR R4, [PC, #-4]
PcOperands ==
    {<<\HE1A0, \H400F>>, <<\HE28F, \H4000>>, <<\HE082, \H400F>>,
     <<\HE59F, \H4000>>, <<\HE51F, \H4004>>}

\* MUL R4, R2, R3; MLA R4, R2, R3, R0; MULS R4, R2, R3; MULNE R5, R3, R3;
\* MULEQ R4, R2, R3
Multiplies ==
    {<<\HE004, \H0392>>, <<\HE024, \H0392>>, <<\HE014, \H0392>>,
     <<\H1005, \H0393>>, <<\H0004, \H0392>>}

TestInstructions ==
    SingleTransfers \cup BlockTransfers \cup PcOperands \cup Multiplies

\* B 0x20; at the SWI vector the return instruction; at 0x20
\* MOVS R0, #0x80000000 (N and C set); SWI 0; B .
ReturnProgram(return) ==
    (0 :> <<\HEA00, \H0006>>) @@ (8 :> return)
        @@ (\H20 :> <<\HE3B0, \H0102>>) @@ (\H24 :> <<\HEF00, \H0000>>)
        @@ (\H28 :> B_SELF)

\* MOVS PC, R14; SUBS PC, R14, #0; MOV PC, R14
Returns == {<<\HE1B0, \HF00E>>, <<\HE25E, \HF000>>, <<\HE1A0, \HF00E>>}

TestPrograms ==
    { Prologue @@ (TEST_ADDR :> instr) @@ (TEST_ADDR + 4 :> B_SELF) :
          instr \in TestInstructions }
    \cup { ReturnProgram(return) : return \in Returns }

InitExec ==
    /\ io = io_create(DEFAULT_WIDTH, DEFAULT_HEIGHT)
    /\ \E p \in TestPrograms :
         mem = [memory_create(ROM_SIZE, \H03800000) EXCEPT !.rom = RomWith(p)]
    /\ cpu = cpu_create
    /\ host = host_create
    /\ last = Did("none", W(0), W(0))
    /\ steps = 0

NextExec ==
    \/ FrameBegin({FALSE})
    \/ FrameTimers
    \/ FrameInterrupts
    \/ FrameCpuStep
    \/ FrameCpuIdle
    \/ FrameRender

SpecExec == InitExec /\ [][NextExec]_vars

\* the instruction is a data-processing one (bits 27..26 = 00) that is not
\* of the multiply pattern (bits 27..22 = 000000, bits 7..4 = 1001)
IsMultiply(instr) == Field(instr, 22, 6) = 0 /\ Field(instr, 4, 4) = 9

IsDataProcessing(instr) == Field(instr, 26, 2) = 0 /\ ~IsMultiply(instr)

\* the opcode writes its result to Rd: not TST, TEQ, CMP, CMN
WritesResult(instr) == Field(instr, 21, 4) \notin 8..11

\* the SPSR of the mode the CPU is in
CurrentSpsr(c) ==
    CASE Mode(c.cpsr) = MODE_IRQ -> c.spsr_irq
      [] Mode(c.cpsr) = MODE_FIQ -> c.spsr_fiq
      [] OTHER -> c.spsr

\* C25: a data-processing instruction with S = 1 and Rd = 15 that writes its
\* result restores CPSR (flags, I, F and mode) from the SPSR of the current
\* mode, so that MOVS PC, R14 after a SWI or IRQ entry brings CPSR back to
\* its value before the exception.
C25_ReturnRestoresCpsr ==
    [][/\ Fetched
       /\ IsDataProcessing(last'.val)
       /\ WritesResult(last'.val)
       /\ Bit32(last'.val, 20) = 1
       /\ Field(last'.val, 12, 4) = 15
       => cpu'.cpsr = CurrentSpsr(cpu)]_vars

\* the value the instruction at address A reads from register r: A + 8 for
\* R15, the register's value otherwise
OperandValue(c, fetch_pc, r) ==
    IF r = 15 THEN Add32(fetch_pc, W(8)) ELSE c.registers[r]

\* C26: R15 read as an operand by the instruction at address A has the
\* value A + 8: as Rm of MOV Rd, Rm, as Rn of ADD Rd, Rn, #imm, as Rm of
\* ADD Rd, Rn, Rm and as the base of LDR Rd, [Rn, #imm] without writeback.
C26_PcOperandIsAddressPlus8 ==
    [][Fetched /\ 15 \in {Field(last'.val, 0, 4), Field(last'.val, 16, 4)} =>
          LET instr == last'.val
              a == last'.addr
              rn == OperandValue(cpu, a, Field(instr, 16, 4))
              rm == OperandValue(cpu, a, Field(instr, 0, 4))
              imm12 == W(Field(instr, 0, 12))
              rd == cpu'.registers[Field(instr, 12, 4)]
          IN  /\ Field(instr, 20, 8) = \H1A /\ Field(instr, 4, 8) = 0 => rd = rm
              /\ Field(instr, 20, 8) = \H28 /\ Field(instr, 8, 4) = 0 =>
                     rd = Add32(rn, W(Field(instr, 0, 8)))
              /\ Field(instr, 20, 8) = \H08 /\ Field(instr, 4, 8) = 0 =>
                     rd = Add32(rn, rm)
              /\ Field(instr, 20, 8) = \H59 =>
                     rd = memory_read_word(mem, io, Add32(rn, imm12))
              /\ Field(instr, 20, 8) = \H51 =>
                     rd = memory_read_word(mem, io, Sub32(rn, imm12))]_vars

\* C27: an instruction of the multiply pattern whose condition passes is
\* executed as a multiply: afterwards Rd (bits 19..16) = (Rm * Rs) mod 2^32,
\* plus Rn (bits 15..12) for MLA, and no other register of R0..R14 changes.
C27_MultiplyPattern ==
    [][Fetched /\ IsMultiply(last'.val) =>
          LET instr == last'.val
              rd == Field(instr, 16, 4)
              product == Mul32(cpu.registers[Field(instr, 0, 4)],
                               cpu.registers[Field(instr, 8, 4)])
              result == IF Bit32(instr, 21) = 1
                        THEN Add32(product, cpu.registers[Field(instr, 12, 4)])
                        ELSE product
          IN  /\ cpu'.registers[rd] = result
              /\ \A r \in 0..14 : r # rd => cpu'.registers[r] = cpu.registers[r]]_vars

IsBlockTransfer(instr) == Field(instr, 25, 3) = 4

\* the number of registers in the list of an LDM/STM
ListCount(instr) ==
    Cardinality({k \in 0..15 : (instr[2] \div Pow2(k)) % 2 = 1})

\* the lowest address of the transfer: base (IA), base + 4 (IB),
\* base - 4n + 4 (DA), base - 4n (DB)
EdgeAddress(instr, base) ==
    LET n == ListCount(instr)
        p == Bit32(instr, 24)
        u == Bit32(instr, 23)
    IN  CASE u = 1 /\ p = 0 -> base
          [] u = 1 /\ p = 1 -> Add32(base, W(4))
          [] u = 0 /\ p = 0 -> Add32(Sub32(base, W(4 * n)), W(4))
          [] OTHER -> Sub32(base, W(4 * n))

\* C28: every LDM/STM with n registers in its list transfers n words, the
\* lowest register at the lowest address, at n consecutive word addresses
\* from the edge address that P and U select; with W = 1 the base register
\* is afterwards base + 4n (U = 1) or base - 4n (U = 0).
C28_BlockTransferAllModes ==
    [][Fetched /\ IsBlockTransfer(last'.val) =>
          LET instr == last'.val
              rn == Field(instr, 16, 4)
              base == cpu.registers[rn]
              n == ListCount(instr)
              moved == BlockLoop([cpu |-> cpu, mem |-> mem, io |-> io], 0,
                                 EdgeAddress(instr, base),
                                 Bit32(instr, 20) = 1, instr[2])
              after == IF Bit32(instr, 23) = 1 THEN Add32(base, W(4 * n))
                       ELSE Sub32(base, W(4 * n))
          IN  \A t \in moved :
                /\ mem' = t.mem
                /\ io' = t.io
                /\ \A r \in 0..14 :
                     cpu'.registers[r] =
                         IF r = rn /\ Bit32(instr, 21) = 1 THEN after
                         ELSE t.cpu.registers[r]]_vars

IsSingleTransfer(instr) == Field(instr, 26, 2) = 1

\* the offset of an LDR/STR: the 12-bit immediate when bit 25 is 0, else Rm
\* shifted by the immediate amount and type in bits 11..4 (the register
\* form of operand 2, which has bit 25 clear in a data-processing word)
TransferOffsets(c, instr) ==
    IF Bit32(instr, 25) = 0 THEN {W(Field(instr, 0, 12))}
    ELSE {o[1] : o \in get_operand2(c, <<instr[1] - \H200, instr[2]>>, FALSE)}

\* the step made the access of the LDR/STR[B] at the given address
AccessAt(instr, at) ==
    LET rd == Field(instr, 12, 4)
        byte == Bit32(instr, 22) = 1
    IN  IF Bit32(instr, 20) = 1 THEN
            /\ cpu'.registers[rd] = IF byte THEN W(memory_read_byte(mem, io, at))
                                    ELSE memory_read_word(mem, io, at)
            /\ mem' = mem
            /\ io' = io
        ELSE
            LET w == IF byte
                     THEN memory_write_byte(mem, io, at, cpu.registers[rd][2] % 256)
                     ELSE memory_write_word(mem, io, at, cpu.registers[rd])
            IN  mem' = w.mem /\ io' = w.io

\* an LDR/STR[B] whose base and transfer registers are not R15 and differ
PlainTransfer ==
    /\ Fetched
    /\ IsSingleTransfer(last'.val)
    /\ Field(last'.val, 16, 4) # 15
    /\ Field(last'.val, 12, 4) # 15
    /\ Field(last'.val, 16, 4) # Field(last'.val, 12, 4)

\* C29: for every LDR/STR[B], with P = 0 the access uses the unmodified base
\* Rn, for loads and stores, bytes and words, and afterwards Rn = base +
\* offset (U = 1) or base - offset (U = 0) whatever W is; with P = 1 the
\* access uses base +- offset and Rn changes only when W = 1.
C29_IndexingModes ==
    [][PlainTransfer =>
          LET instr == last'.val
              rn == Field(instr, 16, 4)
              base == cpu.registers[rn]
          IN  \A offset \in TransferOffsets(cpu, instr) :
                LET target == IF Bit32(instr, 23) = 1 THEN Add32(base, offset)
                              ELSE Sub32(base, offset)
                IN  IF Bit32(instr, 24) = 0 THEN
                        /\ AccessAt(instr, base)
                        /\ cpu'.registers[rn] = target
                    ELSE
                        /\ AccessAt(instr, target)
                        /\ cpu'.registers[rn] =
                               IF Bit32(instr, 21) = 1 THEN target ELSE base]_vars

\* C30: the offset of an LDR/STR is the 12-bit immediate when bit 25 is 0
\* and Rm shifted by the immediate amount and type of bits 11..4 when bit 25
\* is 1: the base written back differs from the old base by it, and the
\* transfer leaves CPSR, its C flag included, as it was.
C30_TransferOffset ==
    [][PlainTransfer =>
          LET instr == last'.val
              rn == Field(instr, 16, 4)
              base == cpu.registers[rn]
              moved == IF Bit32(instr, 23) = 1 THEN Sub32(cpu'.registers[rn], base)
                       ELSE Sub32(base, cpu'.registers[rn])
          IN  /\ Bit32(instr, 24) = 0 \/ Bit32(instr, 21) = 1 =>
                     moved \in TransferOffsets(cpu, instr)
              /\ cpu'.cpsr = cpu.cpsr]_vars
----------------------------------------------------------------------------
(* The arithmetic unit under test.  The guest loads R1 and R2 with one of  *)
(* 0, 1, 0x80000000 and 0xFFFFFFFF, sets the flags with one flag-setting   *)
(* instruction, runs the instruction under test at 12 and spins at 16.     *)

\* MOV Rd, #0; MOV Rd, #1; MOV Rd, #0x80000000; MVN Rd, #0
LoadValue(rd) ==
    {<<\HE3A0, rd * \H1000>>, <<\HE3A0, rd * \H1000 + 1>>,
     <<\HE3A0, rd * \H1000 + \H102>>, <<\HE3E0, rd * \H1000>>}

\* MOVS R0, #0x80000000 (N and C set); MOVS R0, #0x100 (all clear);
\* SUBS R0, R1, #1 (Z and C, N alone, or C and V, by the value of R1)
FlagSetters == {<<\HE3B0, \H0102>>, <<\HE3B0, \H0C01>>, <<\HE251, \H0001>>}

\* SBCS R4, R1, R2; RSCS R4, R1, R2
BorrowTests == {<<\HE0D1, \H4002>>, <<\HE0F1, \H4002>>}

\* MOVS R4, R2, RRX; MOVS R4, R2, LSR #32; MOVS R4, R2, ASR #32
ShifterTests == {<<\HE1B0, \H4062>>, <<\HE1B0, \H4022>>, <<\HE1B0, \H4042>>}

\* AND, EOR, SUB, RSB, ADD, ADC, SBC, RSC, ORR, BIC R4, R1, R2 and
\* MOV, MVN R4, R2 with S = 0; MOV R4, R2, LSR #1; MOV R4, #0x80000000
PlainTests ==
    {<<\HE001, \H4002>>, <<\HE021, \H4002>>, <<\HE041, \H4002>>,
     <<\HE061, \H4002>>, <<\HE081, \H4002>>, <<\HE0A1, \H4002>>,
     <<\HE0C1, \H4002>>, <<\HE0E1, \H4002>>, <<\HE181, \H4002>>,
     <<\HE1C1, \H4002>>, <<\HE1A0, \H4002>>, <<\HE1E0, \H4002>>,
     <<\HE1A0, \H40A2>>, <<\HE3A0, \H4102>>}

AluTests == BorrowTests \cup ShifterTests \cup PlainTests

AluPrograms ==
    { (0 :> a) @@ (4 :> b) @@ (8 :> f) @@ (12 :> t) @@ (16 :> B_SELF) :
          a \in LoadValue(1), b \in LoadValue(2), f \in FlagSetters,
          t \in AluTests }

InitAlu ==
    /\ io = io_create(DEFAULT_WIDTH, DEFAULT_HEIGHT)
    /\ \E p \in AluPrograms :
         mem = [memory_create(ROM_SIZE, \H03800000) EXCEPT !.rom = RomWith(p)]
    /\ cpu = cpu_create
    /\ host = host_create
    /\ last = Did("none", W(0), W(0))
    /\ steps = 0

NextAlu ==
    \/ FrameBegin({FALSE})
    \/ FrameTimers
    \/ FrameInterrupts
    \/ FrameCpuStep
    \/ FrameCpuIdle
    \/ FrameRender

SpecAlu == InitAlu /\ [][NextAlu]_vars

\* the instruction's operand 2 is register Rm with an immediate shift of the
\* given type (0 LSL, 1 LSR, 2 ASR, 3 ROR) and amount field 0
ShiftByZero(instr, type) ==
    /\ IsDataProcessing(instr)
    /\ Bit32(instr, 25) = 0
    /\ Field(instr, 4, 8) = 2 * type

\* what the shifter of cpu_step hands to the instruction being fetched
ShifterOutput == get_operand2(cpu, last'.val, IsSet(cpu.cpsr, PSR_C))

BIT31 == <<\H8000, 0>>
ALL_ONES == <<\HFFFF, \HFFFF>>

\* C31: for a register operand with shift type ROR and immediate amount 0
\* (RRX) the shifter result is (Rm >> 1) | (C_in << 31) and the shifter
\* carry-out is bit 0 of Rm.
C31_RrxShifter ==
    [][Fetched /\ ShiftByZero(last'.val, 3) =>
          LET rm == cpu.registers[Field(last'.val, 0, 4)]
              c_in == IF IsSet(cpu.cpsr, PSR_C) THEN BIT31 ELSE W(0)
          IN  ShifterOutput = {<<Or32(Shr32(rm, 1), c_in), Bit32(rm, 0) = 1>>}]_vars

\* C32: for a register operand with shift type LSR or ASR and immediate
\* amount 0 the shifter shifts by 32: LSR gives 0, ASR gives 32 copies of
\* bit 31 of Rm, and in both cases the carry-out is bit 31 of Rm.
C32_ShiftBy32 ==
    [][Fetched =>
          LET rm == cpu.registers[Field(last'.val, 0, 4)]
              sign == Bit32(rm, 31) = 1
          IN  /\ ShiftByZero(last'.val, 1) => ShifterOutput = {<<W(0), sign>>}
              /\ ShiftByZero(last'.val, 2) =>
                     ShifterOutput = {<<IF sign THEN ALL_ONES ELSE W(0), sign>>}]_vars

\* C33: SBC and RSC with S = 1 give a - b - (1 - C_in) mod 2^32 and leave
\* C = 1 exactly when a >= b + (1 - C_in) as unbounded integers, where
\* a = Rn and b = operand 2 for SBC and the other way round for RSC.
C33_BorrowCarry ==
    [][/\ Fetched
       /\ IsDataProcessing(last'.val)
       /\ Field(last'.val, 21, 4) \in {6, 7}
       /\ Bit32(last'.val, 20) = 1
       /\ Field(last'.val, 12, 4) # 15
       => \E o \in ShifterOutput :
            LET sbc == Field(last'.val, 21, 4) = 6
                rn == cpu.registers[Field(last'.val, 16, 4)]
                a == IF sbc THEN rn ELSE o[1]
                b == IF sbc THEN o[1] ELSE rn
                c_in == IsSet(cpu.cpsr, PSR_C)
                diff == Sub32(a, b)
            IN  /\ cpu'.registers[Field(last'.val, 12, 4)] =
                       IF c_in THEN diff ELSE Sub32(diff, W(1))
                /\ IsSet(cpu'.cpsr, PSR_C) =
                       IF c_in THEN Ge32(a, b) ELSE Lt32(b, a)]_vars

\* the N, Z, C and V bits of a PSR
Flags(psr) == And32(psr, Or32(Or32(PSR_N, PSR_Z), Or32(PSR_C, PSR_V)))

\* C36: a data-processing instruction with S = 0 whose opcode is not TST,
\* TEQ, CMP or CMN leaves N, Z, C and V unchanged.
C36_NoSFlagKeepsFlags ==
    [][/\ Fetched
       /\ IsDataProcessing(last'.val)
       /\ Bit32(last'.val, 20) = 0
       /\ WritesResult(last'.val)
       => Flags(cpu'.cpsr) = Flags(cpu.cpsr)]_vars

----------------------------------------------------------------------------
(* Properties of the timers' width and of the video output *)

\* the value fits in 16 bits
Is16Bit(w) == w[1] = 0

\* C35: each timer's current-low and current-high are 16-bit quantities:
\* after every update_timers call and every IOC register write they lie in
\* 0..0xFFFF, and after a tick that reached the latch the current-low has
\* wrapped to a value below the latch.
C35_TimersAre16Bit ==
    [][last'.op \in {"update_timers", "write_word", "write_byte"} =>
          /\ Is16Bit(io'.ioc.timer0_low) /\ Is16Bit(io'.ioc.timer0_high)
          /\ Is16Bit(io'.ioc.timer1_low) /\ Is16Bit(io'.ioc.timer1_high)
          /\ last'.op = "update_timers" =>
               /\ Ge32(Add32(io.ioc.timer0_low, W(cycles_per_frame)),
                       io.ioc.timer0_latch) =>
                      Lt32(io'.ioc.timer0_low, io'.ioc.timer0_latch)
               /\ Ge32(Add32(io.ioc.timer1_low, W(cycles_per_frame)),
                       io.ioc.timer1_latch) =>
                      Lt32(io'.ioc.timer1_low, io'.ioc.timer1_latch)]_vars

\* The display registers.  The ROM spins at the reset vector; between frames
\* the display start/end and video base registers are written.
VIDC_H_DISPLAY_END == VIDC_BASE + 264 * 4
VIDC_V_DISPLAY_END == VIDC_BASE + 271 * 4
VIDC_VIDEO_BASE == VIDC_BASE + 276 * 4

VideoWriteWordInputs ==
    {<<W(VIDC_H_DISPLAY_END), W(769)>>,
     <<W(VIDC_H_DISPLAY_END), W(448)>>,
     <<W(VIDC_V_DISPLAY_END), W(551)>>,
     <<W(VIDC_H_DISPLAY_START), W(769)>>,
     <<W(VIDC_VIDEO_BASE), <<\HFFFF, \HFFFF>>>>}

VideoWriteByteInputs == {<<W(VIDC_H_DISPLAY_END + 1), ByteX>>}

InitVideo ==
    /\ io = io_create(DEFAULT_WIDTH, DEFAULT_HEIGHT)
    /\ mem = [memory_create(ROM_SIZE, \H03800000) EXCEPT !.rom = RomWith(VectorProgram)]
    /\ cpu = cpu_create
    /\ host = host_create
    /\ last = Did("none", W(0), W(0))
    /\ steps = 0

NextVideo ==
    \/ Idle /\ WriteWord(VideoWriteWordInputs)
    \/ Idle /\ WriteByte(VideoWriteByteInputs)
    \/ FrameBegin({FALSE})
    \/ FrameTimers
    \/ FrameInterrupts
    \/ FrameCpuStep
    \/ FrameCpuIdle
    \/ FrameRender

SpecVideo == InitVideo /\ [][NextVideo]_vars

\* C34: in every state reachable from init with the default display timing
\* by any sequence of VIDC register writes, frame_width = h_display_end -
\* h_display_start and frame_height = v_display_end - v_display_start
\* (mod 2^32).
C34_FrameSizeDerived ==
    /\ io.frame_width = Sub32(io.vidc.h_display_end, io.vidc.h_display_start)
    /\ io.frame_height = Sub32(io.vidc.v_display_end, io.vidc.v_display_start)

\* writes have moved both display ends and the horizontal start, the last
\* one wrapping the width below zero
C34_Witness ==
    /\ last.op = "write_word"
    /\ last.addr = W(VIDC_H_DISPLAY_START)
    /\ io.vidc.h_display_end = W(448)
    /\ io.vidc.v_display_end = W(551)
    /\ io.frame_width = Sub32(W(448), W(769))
    /\ io.frame_height = W(481)

\* C40: for any VIDC display start/end and video_base values the guest may
\* write, render_frame only writes frame-buffer indices below the
\* width * height pixels allocated at init and only reads video bytes at
\* offsets inside the RAM buffer.
C40_RenderInBounds ==
    [][last'.op = "video" => RenderInBounds(io)]_vars

\* arm3_cpu_t has one registers[16] array and no banked copies: register r
\* of every mode is registers[r]
BankedRegister(c, mode, r) == c.registers[r]

Architectural(c) ==
    [registers |-> c.registers, cpsr |-> c.cpsr, spsr |-> c.spsr,
     spsr_irq |-> c.spsr_irq, spsr_fiq |-> c.spsr_fiq]

\* the same architectural state in a machine whose cpu_step has not run
\* before: the function-static counters at their initial values
Unvisited(c) ==
    [c EXCEPT !.total_steps = 0,
              !.early_loop_count = 0, !.outer_loop_count = 0,
              !.loop1_count = 0, !.new_loop_count = 0,
              !.loop2_count = 0, !.loop3_count = 0]

\* what one cpu_step can leave of the architectural state
ArchOutcomes(c, m, i) ==
    { [cpu |-> Architectural(o.cpu), mem |-> o.mem, io |-> o.io,
       exited |-> o.exited] : o \in cpu_step(c, m, i) }

\* C38: cpu_step is a function of the architectural state only: two
\* machines with equal registers, CPSR/SPSRs, memory, boot_mode and IOC
\* state that each execute one cpu_step end in equal states, whatever number
\* of steps or visits to particular addresses each executed before.  Here
\* the second machine is one that has executed none.
C38_StepIgnoresHistory ==
    [][last'.op = "cpu_step" =>
          ArchOutcomes(cpu, mem, io) = ArchOutcomes(Unvisited(cpu), mem, io)]_vars

\* C39: every run_frame call returns to the host after at most the
\* instruction budget (160000) of CPU steps, for any ROM contents and after
\* any number of previously run frames; no CPU step terminates the host
\* process.  As a property of each CPU step of a frame: the process is
\* still there after it, and the loop index is within the budget.
C39_FrameReturnsWithinBudget ==
    [][last'.op \in {"cpu_step", "cpu_idle"} =>
          /\ host'.process = "alive"
          /\ host'.i <= STEPS_PER_FRAME]_vars

====
